---- MODULE Spec2Model ----
(***************************************************************************)
(* Model of the gitops-promoter PromotionStrategy reconciler               *)
(* (internal/controller/promotionstrategy_controller.go), of the utils     *)
(* helpers it calls and of the PullRequest reconciler, together with the   *)
(* store objects they read and write: PromotionStrategy, ProposedCommit,   *)
(* CommitStatus, PullRequest, and the pull requests on the SCM provider.   *)
(***************************************************************************)
EXTENDS Integers, Sequences, FiniteSets, TLC

\* ------------------------------------------------------------------------
\* Bounds of the model
\* ------------------------------------------------------------------------

\* CommitStatus records written by the checks themselves (non-copies)
MaxCS == 2

\* metadata.generation of the PromotionStrategy starts at 1 and grows with
\* every edit of the spec: the user edits the spec MaxGeneration - 1 times
MaxGeneration == 2

\* the invocations of the PullRequest reconciler after a PullRequest was set
\* to merged are counted up to MaxInvocations
MaxInvocations == 3

\* the names given to the utils functions are the names of up to MaxNameLen
\* characters, and longer ones made of two of them around a run of letters
MaxNameLen == 2

\* the status lists given to UpsertEnvironmentStatus have up to MaxEntries entries
MaxEntries == 2

\* turns of the wait loop of createOrGetProposedCommit that are told apart
MaxPolls == 2

\* the dry commits D1, D2; the commit time of D<n> is n
DryCommits == 1..2

NewestDryCommit == CHOOSE n \in DryCommits : \A m \in DryCommits : m <= n

\* ------------------------------------------------------------------------
\* Names used by the store objects
\* ------------------------------------------------------------------------

PsName == "example-promotion-strategy"

PsNamespace == "default"

Branches == {"env/dev", "env/prod"}

ActiveKeyGlobal == "argocd-app-health"

ActiveKeyProd == "performance-test"

ProposedKeyGlobal == "security-scan"

PullRequestOpen == "open"

PullRequestMerged == "merged"

PullRequestClosed == "closed"

CommitSuccess == "success"

CommitPending == "pending"

CSNames == <<"cs1", "cs2", "cs3", "cs4">>

DrySha(n) == IF n = 0 THEN "" ELSE "D" \o ToString(n)

HydratedSha(branch, n) == IF n = 0 THEN "" ELSE "H" \o ToString(n) \o "@" \o branch

VARIABLES
    ps,               \* the PromotionStrategy object in the store (spec and status)
    git,              \* dry commit at the head of each active and proposed branch
    proposedCommits,  \* ProposedCommit objects in the store
    commitStatuses,   \* CommitStatus objects in the store
    pullRequests,     \* PullRequest objects in the store
    recon,            \* the PromotionStrategy reconciliation in flight
    last,             \* what the last completed reconciliation read, computed and did
    provider,         \* the pull request of each branch on the SCM provider
    prLast,           \* what the last invocation of the PullRequest reconciler read and did
    sinceFlip,        \* the PullRequest reconciler's invocations since a PullRequest was set to merged
    call              \* a call of a utils function: the function, its argument, its result

vars == <<ps, git, proposedCommits, commitStatuses, pullRequests, recon, last, provider, prLast,
          sinceFlip, call>>

\* what the PromotionStrategy reconciler never writes
prVars == <<provider, prLast, sinceFlip, call>>

\* what the PullRequest reconciler never writes
psVars == <<ps, git, proposedCommits, commitStatuses, recon, last, call>>

\* ------------------------------------------------------------------------
\* utils (cmd/main.go)
\* ------------------------------------------------------------------------

RECURSIVE SelectSeq2(_, _)
SelectSeq2(s, branch) ==
    IF s = <<>> THEN <<>>
    ELSE IF Head(s).branch = branch THEN <<Head(s)>> \o SelectSeq2(Tail(s), branch)
    ELSE SelectSeq2(Tail(s), branch)

RECURSIVE GetEnvironmentsFromStatusInOrder(_, _)
GetEnvironmentsFromStatusInOrder(specEnvironments, statusEnvironments) ==
    IF specEnvironments = <<>> THEN <<>>
    ELSE SelectSeq2(statusEnvironments, Head(specEnvironments).branch)
            \o GetEnvironmentsFromStatusInOrder(Tail(specEnvironments), statusEnvironments)

\* index (from 1) of the first element of s with that branch, 0 when there is none
RECURSIVE IndexOfBranch(_, _, _)
IndexOfBranch(s, branch, k) ==
    IF k > Len(s) THEN 0
    ELSE IF s[k].branch = branch THEN k
    ELSE IndexOfBranch(s, branch, k + 1)

\* the index is the position in the spec-ordered list, from 1; 0 stands for -1, nil
GetEnvironmentStatusByBranch(specEnvironments, statusEnvironments, branch) ==
    LET environments == GetEnvironmentsFromStatusInOrder(specEnvironments, statusEnvironments)
        i == IndexOfBranch(environments, branch, 1)
    IN  [index |-> i, status |-> IF i = 0 THEN <<>> ELSE <<environments[i]>>]

\* <<>> stands for nil, <<s>> for a pointer to s
RECURSIVE PreviousFrom(_, _, _)
PreviousFrom(environments, branch, k) ==
    IF k > Len(environments) THEN <<>>
    ELSE IF environments[k].branch = branch /\ k - 1 >= 1 THEN <<environments[k - 1]>>
    ELSE PreviousFrom(environments, branch, k + 1)

GetPreviousEnvironmentStatusByBranch(specEnvironments, statusEnvironments, branch) ==
    PreviousFrom(GetEnvironmentsFromStatusInOrder(specEnvironments, statusEnvironments), branch, 1)

\* UpsertEnvironmentStatus that appends whatever the slice holds
UpsertByAppend(slice, i) ==
    Append(slice, i)

UpsertEnvironmentStatus(slice, i) ==
    IF Len(slice) = 0 THEN Append(slice, i)
    ELSE LET index == IndexOfBranch(slice, i.branch, 1)
         IN  IF index # 0 THEN [slice EXCEPT ![index] = i]
             ELSE Append(slice, i)

\* ------------------------------------------------------------------------
\* utils: names (cmd/main.go); a name is handled as its sequence of characters
\* ------------------------------------------------------------------------

LowerLetters ==
    <<"a", "b", "c", "d", "e", "f", "g", "h", "i", "j", "k", "l", "m",
      "n", "o", "p", "q", "r", "s", "t", "u", "v", "w", "x", "y", "z">>

UpperLetters ==
    <<"A", "B", "C", "D", "E", "F", "G", "H", "I", "J", "K", "L", "M",
      "N", "O", "P", "Q", "R", "S", "T", "U", "V", "W", "X", "Y", "Z">>

DecimalDigits == <<"0", "1", "2", "3", "4", "5", "6", "7", "8", "9">>

HexDigits == DecimalDigits \o <<"a", "b", "c", "d", "e", "f">>

\* position of c in s, 0 when c is not in s
PositionIn(s, c) ==
    IF \E n \in 1..Len(s) : s[n] = c THEN CHOOSE n \in 1..Len(s) : s[n] = c ELSE 0

\* the characters of the names of the model
Chars(name) ==
    CASE name = "example-promotion-strategy" ->
             <<"e", "x", "a", "m", "p", "l", "e", "-", "p", "r", "o", "m", "o", "t", "i", "o", "n",
               "-", "s", "t", "r", "a", "t", "e", "g", "y">>
      [] name = "env/dev" -> <<"e", "n", "v", "/", "d", "e", "v">>
      [] name = "env-dev" -> <<"e", "n", "v", "-", "d", "e", "v">>
      [] name = "Env/Dev" -> <<"E", "n", "v", "/", "D", "e", "v">>
      [] name = "env/prod" -> <<"e", "n", "v", "/", "p", "r", "o", "d">>

RECURSIVE Join(_)
Join(chars) == IF chars = <<>> THEN "" ELSE Head(chars) \o Join(Tail(chars))

\* a character outside of [^a-zA-Z0-9]
IsAlphaNumeric(c) ==
    PositionIn(LowerLetters, c) # 0 \/ PositionIn(UpperLetters, c) # 0 \/ PositionIn(DecimalDigits, c) # 0

\* m1.ReplaceAllString(name, "-"): every run of other characters becomes one hyphen
\* a character with the place it has: it is kept when it is alphanumeric or
\* begins a run of other characters
BeginsMatchOrLiteral(placed) ==
    placed[2] \/ placed[3]

\* the characters kept, every one that is not alphanumeric as a hyphen
HyphenFor(kept) ==
    [n \in 1..Len(kept) |-> IF kept[n][2] THEN kept[n][1] ELSE "-"] \o <<>>

ReplaceAllString(name) ==
    LET placed == [n \in 1..Len(name) |->
                      <<name[n], IsAlphaNumeric(name[n]),
                        IF n = 1 THEN TRUE ELSE IsAlphaNumeric(name[n - 1])>>]
    IN  CHOOSE replaced \in {HyphenFor(kept) : kept \in {SelectSeq(placed, BeginsMatchOrLiteral)}} : TRUE

\* strings.ToLower
ToLower(name) ==
    [n \in 1..Len(name) |->
        IF PositionIn(UpperLetters, name[n]) # 0
        THEN LowerLetters[PositionIn(UpperLetters, name[n])]
        ELSE name[n]] \o <<>>

\* the byte of a character of a sanitised name
ByteOf(c) ==
    IF PositionIn(LowerLetters, c) # 0 THEN 96 + PositionIn(LowerLetters, c)
    ELSE IF PositionIn(DecimalDigits, c) # 0 THEN 47 + PositionIn(DecimalDigits, c)
    ELSE 45

\* exclusive or of two numbers of the given count of bits
RECURSIVE Xor(_, _, _)
Xor(a, b, bits) ==
    IF bits = 0 THEN 0
    ELSE ((a + b) % 2) + 2 * Xor(a \div 2, b \div 2, bits - 1)

\* fnv.New32a: a 32-bit hash kept as <<high 16 bits, low 16 bits>>, from the
\* offset basis 0x811c9dc5; every byte is xor-ed in and the hash multiplied by
\* the prime 0x01000193 = 2^24 + 403, modulo 2^32
\* one byte of h.Write: hash ^= byte, hash *= prime32
Fnv32aByte(h, byte) ==
    LET lo == (h[2] \div 256) * 256 + Xor(h[2] % 256, byte, 8)
        t == lo * 403
    IN  <<(h[1] * 403 + (t \div 65536) + (lo % 256) * 256) % 65536, t % 65536>>

\* h.Write of the bytes from..to of the name, in their order: the first half
\* of them, then the others
RECURSIVE Fnv32a(_, _, _, _)
Fnv32a(h, name, from, to) ==
    IF from > to THEN h
    ELSE IF from = to THEN Fnv32aByte(h, ByteOf(name[from]))
    ELSE CHOOSE hash \in {Fnv32a(written, name, ((from + to) \div 2) + 1, to) :
                              written \in {Fnv32a(h, name, from, (from + to) \div 2)}} : TRUE

\* fmt.Sprintf("%x", h.Sum32()): hexadecimal without leading zeros
RECURSIVE Hex(_)
Hex(n) ==
    IF n < 16 THEN <<HexDigits[n + 1]>> ELSE Hex(n \div 16) \o <<HexDigits[(n % 16) + 1]>>

RECURSIVE Hex4(_, _)
Hex4(n, digits) ==
    IF digits = 0 THEN <<>> ELSE Hex4(n \div 16, digits - 1) \o <<HexDigits[(n % 16) + 1]>>

Sum32Hex(h) == IF h[1] = 0 THEN Hex(h[2]) ELSE Hex(h[1]) \o Hex4(h[2], 4)

TruncateString(str, length) ==
    IF length <= 0 THEN <<>>
    ELSE IF Len(str) <= length THEN str
    ELSE SubSeq(str, 1, length)

\* TruncateStringFromBeginning that truncates nothing
KeepString(str, length) ==
    str

TruncateStringFromBeginning(str, length) ==
    IF length <= 0 THEN <<>>
    ELSE IF Len(str) <= length THEN str
    ELSE SubSeq(str, Len(str) - length + 1, Len(str))

KubeSafeLabel(name0) ==
    IF name0 = <<>> THEN <<>>
    ELSE LET name == TruncateStringFromBeginning(ReplaceAllString(name0), 63)
         IN  IF name[1] = "-" THEN Tail(name) ELSE name

\* KubeSafeUniqueName once the hash is there: the trailing hyphen cut, the
\* hash appended, the whole truncated
AppendHash(name, hash) ==
    LET stripped == IF name[Len(name)] = "-" THEN SubSeq(name, 1, Len(name) - 1) ELSE name
    IN  TruncateString(stripped \o <<"-">> \o hash, 255 - Len(hash) - 1)

\* KubeSafeUniqueName once the name is sanitised
HashName(name) ==
    CHOOSE unique \in
        {AppendHash(name, hash) : hash \in {Sum32Hex(Fnv32a(<<33052, 40389>>, name, 1, Len(name)))}} : TRUE

\* every value is bound once it is computed, as a variable of the function is
KubeSafeUniqueName(name0) ==
    CHOOSE unique \in {HashName(name) : name \in {ToLower(ReplaceAllString(name0))}} : TRUE

\* ------------------------------------------------------------------------
\* PromotionStrategyReconciler.calculateStatus
\* ------------------------------------------------------------------------

\* r.List of CommitStatus by label commit-status=<key> and field .spec.sha;
\* the keys of the model are label-safe, KubeSafeLabel leaves them as they are
ListCommitStatuses(store, key, sha) ==
    {cs \in store : cs.key = key /\ cs.sha = sha}

\* all items of a list, the labelled ones too
AllItems(items) ==
    items

\* the items without label commit-status-copy=true
NonCopyItems(items) ==
    {item \in items : ~item.copy}

NewEnvironmentStatus(environment, pc) ==
    [branch |-> environment.branch,
     active |-> [dry |-> pc.status.active.dry,
                 hydrated |-> pc.status.active.hydrated,
                 commitStatus |-> [state |-> "unknown", sha |-> "unknown"]],
     proposed |-> [dry |-> pc.status.proposed.dry,
                   hydrated |-> pc.status.proposed.hydrated,
                   commitStatus |-> [state |-> "unknown", sha |-> "unknown"]]]

\* the loop over the keys of one side: a key with exactly one non-copy match
\* adds the record to the collected list, any other count writes a sentinel
RECURSIVE BubbleUpKeys(_, _, _, _, _)
BubbleUpKeys(store, keys, sha, commitStatus, all) ==
    IF keys = <<>> THEN [commitStatus |-> commitStatus, all |-> all]
    ELSE LET csListSlice == NonCopyItems(ListCommitStatuses(store, Head(keys), sha))
             n == Cardinality(csListSlice)
         IN  IF n = 1
             THEN BubbleUpKeys(store, Tail(keys), sha, commitStatus,
                               Append(all, CHOOSE item \in csListSlice : TRUE))
             ELSE IF n > 1
             THEN BubbleUpKeys(store, Tail(keys), sha,
                               [state |-> "to-many-matching-sha", sha |-> "to-many-matching-sha"], all)
             ELSE BubbleUpKeys(store, Tail(keys), sha,
                               [state |-> "no-commit-status-found", sha |-> "no-commit-status-found"], all)

\* state success, then the first collected record whose status.state is not
\* success overrides state and sha with its spec.state and spec.sha
RECURSIVE BubbleUpSuccess(_, _)
BubbleUpSuccess(commitStatus, all) ==
    IF all = <<>> THEN [commitStatus EXCEPT !.state = "success"]
    ELSE IF Head(all).statusState # "success"
    THEN [state |-> Head(all).specState, sha |-> Head(all).sha]
    ELSE BubbleUpSuccess(commitStatus, Tail(all))

\* the part of calculateStatus after the key loop of the active side
ActiveRollup(st, i, pc, allActiveCSList) ==
    IF Len(allActiveCSList) = 0 /\ i >= 1
    THEN [st EXCEPT ![i].proposed.commitStatus =
                        [state |-> "success", sha |-> pc.status.active.hydrated.sha]]
    ELSE [st EXCEPT ![i].active.commitStatus =
                        BubbleUpSuccess(st[i].active.commitStatus, allActiveCSList)]

\* the part of calculateStatus after the key loop of the proposed side
ProposedRollup(st, i, pc, allProposdedCSList, allActiveCSList) ==
    IF Len(allProposdedCSList) = 0 /\ i >= 1
    THEN [st EXCEPT ![i].proposed.commitStatus =
                        [state |-> "success", sha |-> pc.status.active.hydrated.sha]]
    ELSE [st EXCEPT ![i].proposed.commitStatus =
                        BubbleUpSuccess(st[i].proposed.commitStatus, allActiveCSList)]

\* the body of the loop of calculateStatus for one environment
CalculateEnvironment(store, psLocal, st0, environment, pc) ==
    LET st1 == UpsertEnvironmentStatus(st0, NewEnvironmentStatus(environment, pc))
        i == GetEnvironmentStatusByBranch(psLocal.environments, st1, environment.branch).index
        activeCommitStatusList == environment.activeCommitStatuses \o psLocal.activeCommitStatuses
        a == BubbleUpKeys(store, activeCommitStatusList, pc.status.active.hydrated.sha,
                          st1[i].active.commitStatus, <<>>)
        st2 == [st1 EXCEPT ![i].active.commitStatus = a.commitStatus]
        st3 == ActiveRollup(st2, i, pc, a.all)
        proposedCommitStatusList == environment.proposedCommitStatuses \o psLocal.proposedCommitStatuses
        p == BubbleUpKeys(store, proposedCommitStatusList, pc.status.proposed.hydrated.sha,
                          st3[i].proposed.commitStatus, <<>>)
        st4 == [st3 EXCEPT ![i].proposed.commitStatus = p.commitStatus]
    IN  ProposedRollup(st4, i, pc, p.all, a.all)

\* the new ps.Status.Environments
RECURSIVE calculateStatusFrom(_, _, _, _, _)
calculateStatusFrom(store, psLocal, pcMap, st, k) ==
    IF k > Len(psLocal.environments) THEN st
    ELSE calculateStatusFrom(store, psLocal, pcMap,
             CalculateEnvironment(store, psLocal, st, psLocal.environments[k],
                                  pcMap[psLocal.environments[k].branch]),
             k + 1)

calculateStatus(store, psLocal, pcMap) ==
    calculateStatusFrom(store, psLocal, pcMap, psLocal.status, 1)

\* ------------------------------------------------------------------------
\* PromotionStrategyReconciler.copyCommitStatuses
\* ------------------------------------------------------------------------

\* one name for every copy
CopyNameShared(name) == "proposed-"

\* the name of the copy of a record
CopyName(name) == "proposed-" \o name

\* position of a record's name in CSNames: the items of a list come in name order
NameIndex(name) == CHOOSE n \in 1..Len(CSNames) : CSNames[n] = name

\* result of the loop over the items of one key: the store, and whether the
\* function returned from inside the loop (after a Create)
RECURSIVE CopyItems(_, _, _, _, _)
CopyItems(store, items, copyFromActiveHydratedSha, copyToProposedHydratedSha, branch) ==
    IF items = {} THEN [store |-> store, returned |-> FALSE]
    ELSE LET commitStatus == CHOOSE c \in items :
                                 \A d \in items : NameIndex(c.name) <= NameIndex(d.name)
             existing == {cs \in store : /\ cs.namespace = commitStatus.namespace
                                         /\ cs.name = CopyName(commitStatus.name)}
         IN  IF existing = {}
             THEN [store |-> store \cup
                       {[name |-> CopyName(commitStatus.name),
                         namespace |-> commitStatus.namespace,
                         key |-> commitStatus.key,
                         copy |-> TRUE,
                         sha |-> copyToProposedHydratedSha,
                         specName |-> branch \o " - " \o commitStatus.specName,
                         specState |-> commitStatus.specState,
                         statusState |-> ""]},
                   returned |-> TRUE]
             ELSE LET cs == CHOOSE c \in existing : TRUE
                      updated == [cs EXCEPT !.copy = TRUE,
                                            !.sha = copyToProposedHydratedSha,
                                            !.specName = branch \o " - " \o commitStatus.specName,
                                            !.specState = commitStatus.specState]
                  IN  CopyItems((store \ {cs}) \cup {updated}, items \ {commitStatus},
                                copyFromActiveHydratedSha, copyToProposedHydratedSha, branch)

RECURSIVE copyCommitStatuses(_, _, _, _, _)
copyCommitStatuses(store, csSelector, copyFromActiveHydratedSha, copyToProposedHydratedSha, branch) ==
    IF csSelector = <<>> THEN store
    ELSE LET items == NonCopyItems(ListCommitStatuses(store, Head(csSelector), copyFromActiveHydratedSha))
             r == CopyItems(store, items, copyFromActiveHydratedSha, copyToProposedHydratedSha, branch)
         IN  IF r.returned THEN r.store
             ELSE copyCommitStatuses(r.store, Tail(csSelector), copyFromActiveHydratedSha,
                                     copyToProposedHydratedSha, branch)

\* ------------------------------------------------------------------------
\* PromotionStrategyReconciler.createOrGetProposedCommit
\* ------------------------------------------------------------------------

ShaState(sha, commitTime) == [sha |-> sha, commitTime |-> commitTime]

EmptyBranchState == [dry |-> ShaState("", 0), hydrated |-> ShaState("", 0)]

\* the branches an environment of the model can have
AllBranches == {"env/dev", "env/prod", "env-dev", "Env/Dev"}

\* utils.KubeSafeUniqueName(ctx, fmt.Sprintf("%s-%s", ps.Name, environment.Branch))
\* for every branch of the model
ProposedCommitNames ==
    [branch \in AllBranches |->
        Join(KubeSafeUniqueName(Chars(PsName) \o <<"-">> \o Chars(branch)))]

ProposedCommitName(branch) == ProposedCommitNames[branch]

NewProposedCommit(branch) ==
    [name |-> ProposedCommitName(branch),
     namespace |-> PsNamespace,
     owner |-> PsName,
     proposedBranch |-> branch \o "-" \o "next",
     activeBranch |-> branch,
     status |-> [active |-> EmptyBranchState, proposed |-> EmptyBranchState]]

\* a wait loop that ends at the first Get
ShasNotAwaited(pc) ==
    TRUE

\* the condition that ends the wait loop
ShasPresent(pc) ==
    /\ pc.status.active.dry.sha # ""
    /\ pc.status.active.hydrated.sha # ""
    /\ pc.status.proposed.dry.sha # ""
    /\ pc.status.proposed.hydrated.sha # ""

\* the first loop of Reconcile from environment k on: create the missing
\* ProposedCommit, then wait for its SHAs; blocked = k when the wait loop of
\* environment k does not end on the store as it is, 0 when the loop is over
RECURSIVE EnsureProposedCommits(_, _, _, _)
EnsureProposedCommits(psLocal, pcs, pcMap, k) ==
    IF k > Len(psLocal.environments)
    THEN [blocked |-> 0, proposedCommits |-> pcs, pcMap |-> pcMap]
    ELSE LET branch == psLocal.environments[k].branch
             found == {pc \in pcs : pc.name = ProposedCommitName(branch)}
             pcs1 == IF found = {} THEN pcs \cup {NewProposedCommit(branch)} ELSE pcs
             pc == CHOOSE c \in pcs1 : c.name = ProposedCommitName(branch)
         IN  IF ShasPresent(pc)
             THEN EnsureProposedCommits(psLocal, pcs1, (branch :> pc) @@ pcMap, k + 1)
             ELSE [blocked |-> k, proposedCommits |-> pcs1, pcMap |-> pcMap]

\* ------------------------------------------------------------------------
\* PromotionStrategyReconciler.Reconcile
\* ------------------------------------------------------------------------

\* Environment.GetAutoMerge: an unset autoMerge counts as true
GetAutoMerge(environment) == environment.autoMerge

\* copyCondition without the comparison of the dry SHAs
copyConditionAnyPrevious(previousEnvironmentStatus, pc) ==
    previousEnvironmentStatus # <<>>

copyCondition(previousEnvironmentStatus, pc) ==
    /\ previousEnvironmentStatus # <<>>
    /\ previousEnvironmentStatus[1].active.dry.sha = pc.status.proposed.dry.sha

\* activeChecksPassed without the test of the previous environment's rollup
activeChecksPassedAnyState(previousEnvironmentStatus, environmentStatus, pc) ==
    /\ previousEnvironmentStatus # <<>>
    /\ previousEnvironmentStatus[1].active.dry.sha = pc.status.proposed.dry.sha
    /\ previousEnvironmentStatus[1].active.dry.commitTime > environmentStatus[1].active.dry.commitTime

activeChecksPassed(previousEnvironmentStatus, environmentStatus, pc) ==
    /\ previousEnvironmentStatus # <<>>
    /\ previousEnvironmentStatus[1].active.commitStatus.state = "success"
    /\ previousEnvironmentStatus[1].active.dry.sha = pc.status.proposed.dry.sha
    /\ previousEnvironmentStatus[1].active.dry.commitTime > environmentStatus[1].active.dry.commitTime

\* proposedChecksPassed without the test of the rollup
proposedChecksPassedAnyState(environmentStatus) ==
    environmentStatus # <<>>

proposedChecksPassed(environmentStatus) ==
    /\ environmentStatus # <<>>
    /\ environmentStatus[1].proposed.commitStatus.state = "success"

\* mergeCondition with one gate enough
mergeConditionEitherGate(environmentIndex, active, proposed, environment) ==
    (environmentIndex = 1 \/ (active \/ proposed)) /\ GetAutoMerge(environment)

\* mergeCondition without the autoMerge flag
mergeConditionAnyAutoMerge(environmentIndex, active, proposed, environment) ==
    environmentIndex = 1 \/ (active /\ proposed)

mergeCondition(environmentIndex, active, proposed, environment) ==
    (environmentIndex = 1 \/ (active /\ proposed)) /\ GetAutoMerge(environment)

\* r.List of PullRequest by the three labels; the promotion-strategy and
\* proposed-commit labels are the same for all PullRequests of the model
ListPullRequests(prs, branch) ==
    {pr \in prs : pr.environment = branch}

\* the body of the second loop of Reconcile for one environment; acc carries
\* the stores as written so far and the branches whose PR was set to merged
ReconcileEnvironment(acc, psLocal, pcMap, environment) ==
    LET prev == GetPreviousEnvironmentStatusByBranch(psLocal.environments, psLocal.status, environment.branch)
        cur == GetEnvironmentStatusByBranch(psLocal.environments, psLocal.status, environment.branch)
        pc == pcMap[environment.branch]
        store1 == IF copyCondition(prev, pc)
                  THEN copyCommitStatuses(acc.commitStatuses,
                           environment.activeCommitStatuses \o psLocal.activeCommitStatuses,
                           prev[1].active.hydrated.sha, pc.status.proposed.hydrated.sha, prev[1].branch)
                  ELSE acc.commitStatuses
        active == activeChecksPassed(prev, cur.status, pc)
        proposed == proposedChecksPassed(cur.status)
        prl == ListPullRequests(acc.pullRequests, environment.branch)
        flip == /\ mergeCondition(cur.index, active, proposed, environment)
                /\ \E pr \in prl : pr.specState = PullRequestOpen /\ pr.statusState = PullRequestOpen
    IN  [commitStatuses |-> store1,
         pullRequests |-> IF flip
                          THEN {IF pr \in prl
                                THEN [pr EXCEPT !.specState = PullRequestMerged, !.generation = @ + 1]
                                ELSE pr
                                    : pr \in acc.pullRequests}
                          ELSE acc.pullRequests,
         flipped |-> IF flip THEN acc.flipped \cup {environment.branch} ELSE acc.flipped]

RECURSIVE ReconcileEnvironments(_, _, _, _)
ReconcileEnvironments(acc, psLocal, pcMap, k) ==
    IF k > Len(psLocal.environments) THEN acc
    ELSE ReconcileEnvironments(ReconcileEnvironment(acc, psLocal, pcMap, psLocal.environments[k]),
                               psLocal, pcMap, k + 1)

\* a body of the second loop that goes on after the store call has failed
ReconcileEnvironmentGoesOn(acc, psLocal, pcMap, environment, stage) ==
    [possible |-> TRUE, acc |-> ReconcileEnvironment(acc, psLocal, pcMap, environment)]

\* the body of the second loop for one environment when a store call of it
\* returns an error: stage "copy" is the List of copyCommitStatuses, stage
\* "pullRequest" the List of PullRequests or the Get and Update of the retry
\* loop; possible tells whether the body makes that call at all
ReconcileEnvironmentFails(acc, psLocal, pcMap, environment, stage) ==
    LET prev == GetPreviousEnvironmentStatusByBranch(psLocal.environments, psLocal.status, environment.branch)
        cur == GetEnvironmentStatusByBranch(psLocal.environments, psLocal.status, environment.branch)
        pc == pcMap[environment.branch]
        active == activeChecksPassed(prev, cur.status, pc)
        proposed == proposedChecksPassed(cur.status)
    IN  IF stage = "copy"
        THEN [possible |-> copyCondition(prev, pc), acc |-> acc]
        ELSE [possible |-> mergeCondition(cur.index, active, proposed, environment),
              acc |-> [acc EXCEPT !.commitStatuses =
                          ReconcileEnvironment(acc, psLocal, pcMap, environment).commitStatuses]]

\* the second loop until a store call fails in the body of environment failAt
RECURSIVE ReconcileEnvironmentsUntil(_, _, _, _, _, _)
ReconcileEnvironmentsUntil(acc, psLocal, pcMap, k, failAt, stage) ==
    IF k = failAt
    THEN ReconcileEnvironmentFails(acc, psLocal, pcMap, psLocal.environments[k], stage)
    ELSE ReconcileEnvironmentsUntil(ReconcileEnvironment(acc, psLocal, pcMap, psLocal.environments[k]),
                                    psLocal, pcMap, k + 1, failAt, stage)

\* the RequeueAfter of the Result that Reconcile returns, in seconds
RequeueAfter == 10

\* the default of flag promotion-strategy-requeue-duration, in seconds
PromotionStrategyRequeueDuration == 60

Idle == [phase |-> "idle"]

\* last when the step just taken did not complete a reconciliation
NotRun ==
    [ran |-> FALSE, environments |-> <<>>, activeCommitStatuses |-> <<>>,
     proposedCommitStatuses |-> <<>>,
     pcMap |-> <<>>, status |-> <<>>, flipped |-> {}, err |-> "", requeueAfter |-> 0,
     copiesRead |-> {}, stage |-> "", failedAt |-> 0]

\* the strategy is not in the store any more
Gone ==
    [generation |-> 0, environments |-> <<>>, activeCommitStatuses |-> <<>>,
     proposedCommitStatuses |-> <<>>, status |-> <<>>]

\* Reconcile from calculateStatus to the return, with every ProposedCommit read
ReconcileDecide(psLocal, pcs, pcMap) ==
    LET status == calculateStatus(commitStatuses, psLocal, pcMap)
        psCalc == [psLocal EXCEPT !.status = status]
        acc == ReconcileEnvironments([commitStatuses |-> commitStatuses,
                                      pullRequests |-> pullRequests,
                                      flipped |-> {}], psCalc, pcMap, 1)
        \* r.Status().Update fails with a conflict when the object has been
        \* written since it was read
        conflict == ps.generation # psLocal.generation
    IN  /\ proposedCommits' = pcs
        /\ commitStatuses' = acc.commitStatuses
        /\ pullRequests' = acc.pullRequests
        /\ ps' = IF conflict THEN ps ELSE [ps EXCEPT !.status = status]
        /\ recon' = Idle
        /\ last' = [ran |-> TRUE,
                    environments |-> psLocal.environments,
                    activeCommitStatuses |-> psLocal.activeCommitStatuses,
                    proposedCommitStatuses |-> psLocal.proposedCommitStatuses,
                    pcMap |-> pcMap,
                    status |-> status,
                    flipped |-> acc.flipped,
                    err |-> IF conflict THEN "conflict" ELSE "",
                    requeueAfter |-> IF conflict THEN 0 ELSE RequeueAfter,
                    copiesRead |-> {cs.name : cs \in commitStatuses \ NonCopyItems(commitStatuses)},
                    stage |-> IF conflict THEN "statusUpdate" ELSE "",
                    failedAt |-> 0]
        /\ UNCHANGED <<git, prVars>>

\* the stages of Reconcile after the first loop in which a store call can fail
StoreStages == {"calculateStatus", "copy", "pullRequest", "statusUpdate"}

\* Reconcile from calculateStatus on when a store call returns an error that
\* is not a conflict: in calculateStatus, in the body of environment failAt
\* of the second loop, or in the final r.Status().Update
ReconcileDecideStoreError(psLocal, pcs, pcMap, stage, failAt) ==
    LET status == calculateStatus(commitStatuses, psLocal, pcMap)
        psCalc == [psLocal EXCEPT !.status = status]
        start == [commitStatuses |-> commitStatuses, pullRequests |-> pullRequests, flipped |-> {}]
        until == CASE stage = "calculateStatus" -> [possible |-> failAt = 1, acc |-> start]
                   [] stage = "statusUpdate" ->
                          [possible |-> failAt = 1,
                           acc |-> ReconcileEnvironments(start, psCalc, pcMap, 1)]
                   [] OTHER -> ReconcileEnvironmentsUntil(start, psCalc, pcMap, 1, failAt, stage)
    IN  /\ stage \in StoreStages
        /\ failAt \in 1..Len(psLocal.environments)
        /\ until.possible
        /\ proposedCommits' = pcs
        /\ commitStatuses' = until.acc.commitStatuses
        /\ pullRequests' = until.acc.pullRequests
        /\ recon' = Idle
        /\ last' = [ran |-> TRUE,
                    environments |-> psLocal.environments,
                    activeCommitStatuses |-> psLocal.activeCommitStatuses,
                    proposedCommitStatuses |-> psLocal.proposedCommitStatuses,
                    pcMap |-> pcMap,
                    status |-> IF stage = "calculateStatus" THEN <<>> ELSE status,
                    flipped |-> until.acc.flipped,
                    err |-> "store",
                    requeueAfter |-> 0,
                    copiesRead |-> {cs.name : cs \in commitStatuses \ NonCopyItems(commitStatuses)},
                    stage |-> stage,
                    failedAt |-> IF stage \in {"copy", "pullRequest"} THEN failAt ELSE 0]
        /\ UNCHANGED <<ps, git, prVars>>

ReconcileRun(psLocal, pcMap, k) ==
    LET e == EnsureProposedCommits(psLocal, proposedCommits, pcMap, k)
    IN  IF e.blocked = 0
        THEN ReconcileDecide(psLocal, e.proposedCommits, e.pcMap)
        ELSE /\ proposedCommits' = e.proposedCommits
             /\ recon' = [phase |-> "wait", idx |-> e.blocked, ps |-> psLocal, pcMap |-> e.pcMap,
                          cancelled |-> IF recon.phase = "wait" THEN recon.cancelled ELSE FALSE,
                          polls |-> 0]
             /\ last' = NotRun
             /\ UNCHANGED <<ps, git, commitStatuses, pullRequests, prVars>>

\* what Reconcile returns with when a store call has failed before it has
\* written anything
StoreErrorReturn(stage) ==
    /\ recon' = Idle
    /\ last' = [NotRun EXCEPT !.ran = TRUE, !.err = "store", !.stage = stage]
    /\ UNCHANGED <<ps, git, proposedCommits, commitStatuses, pullRequests, prVars>>

\* the run of ReconcileRun in which a store call returns an error that is
\* not a conflict: stage "proposedCommit" is the first Get of
\* createOrGetProposedCommit for environment k
ReconcileRunStoreError(psLocal, pcMap, k, stage, failAt) ==
    IF stage = "proposedCommit"
    THEN failAt = k /\ StoreErrorReturn(stage)
    ELSE LET e == EnsureProposedCommits(psLocal, proposedCommits, pcMap, k)
         IN  /\ e.blocked = 0
             /\ ReconcileDecideStoreError(psLocal, e.proposedCommits, e.pcMap, stage, failAt)

\* an invocation of Reconcile, up to its return or to a wait loop that does not end
Reconcile ==
    /\ recon.phase = "idle"
    /\ ps # Gone
    /\ ReconcileRun(ps, <<>>, 1)

\* an invocation for a strategy that is not found: success, nothing written
ReconcileNotFound ==
    /\ recon.phase = "idle"
    /\ ps = Gone
    /\ last' = [NotRun EXCEPT !.ran = TRUE]
    /\ UNCHANGED <<ps, git, proposedCommits, commitStatuses, pullRequests, recon, prVars>>

\* an invocation whose r.Get of the strategy returns another error
ReconcileGetError ==
    /\ recon.phase = "idle"
    /\ StoreErrorReturn("get")

\* an invocation in which a later store call returns an error
ReconcileStoreError(stage, failAt) ==
    /\ recon.phase = "idle"
    /\ ps # Gone
    /\ ReconcileRunStoreError(ps, <<>>, 1, stage, failAt)

\* the wait loop of createOrGetProposedCommit ends and Reconcile goes on
ReconcileResume ==
    /\ recon.phase = "wait"
    /\ \E pc \in proposedCommits :
           /\ pc.name = ProposedCommitName(recon.ps.environments[recon.idx].branch)
           /\ ShasPresent(pc)
    /\ ReconcileRun(recon.ps, recon.pcMap, recon.idx)

\* the wait loop ends with an error of its r.Get, or ends and a later store
\* call returns an error
ReconcileResumeStoreError(stage, failAt) ==
    /\ recon.phase = "wait"
    /\ \/ stage = "proposedCommit"
       \/ \E pc \in proposedCommits :
              /\ pc.name = ProposedCommitName(recon.ps.environments[recon.idx].branch)
              /\ ShasPresent(pc)
    /\ ReconcileRunStoreError(recon.ps, recon.pcMap, recon.idx, stage, failAt)

\* the context of the invocation in flight is cancelled: shutdown or timeout
CancelContext ==
    /\ recon.phase = "wait"
    /\ ~recon.cancelled
    /\ recon' = [recon EXCEPT !.cancelled = TRUE]
    /\ UNCHANGED <<ps, git, proposedCommits, commitStatuses, pullRequests, last, prVars>>

\* one more turn of the wait loop: r.Get answers from the informer cache
\* without an error, the ProposedCommit is not found or lacks a SHA, the
\* loop sleeps and goes on; the loop itself never looks at the context
WaitPoll ==
    /\ recon.phase = "wait"
    /\ recon.polls < MaxPolls
    /\ \A pc \in proposedCommits :
           pc.name = ProposedCommitName(recon.ps.environments[recon.idx].branch) => ~ShasPresent(pc)
    /\ recon' = [recon EXCEPT !.polls = @ + 1]
    /\ UNCHANGED <<ps, git, proposedCommits, commitStatuses, pullRequests, last, prVars>>

\* the user deletes the strategy
DeleteStrategy ==
    /\ ps # Gone
    /\ ps' = Gone
    /\ last' = NotRun
    /\ UNCHANGED <<git, proposedCommits, commitStatuses, pullRequests, recon, prVars>>

\* ------------------------------------------------------------------------
\* The other actors: the user, the checks, the ProposedCommit and PullRequest
\* reconcilers
\* ------------------------------------------------------------------------

\* spec.environments entries as in docs/example-resources/PromotionStrategy.yaml:
\* env/prod carries its own active key and may switch autoMerge off
Environment(branch, prodAutoMerge) ==
    IF branch = "env/prod"
    THEN [branch |-> branch, autoMerge |-> prodAutoMerge,
          activeCommitStatuses |-> <<ActiveKeyProd>>, proposedCommitStatuses |-> <<>>]
    ELSE [branch |-> branch, autoMerge |-> TRUE,
          activeCommitStatuses |-> <<>>, proposedCommitStatuses |-> <<>>]

\* the orders in which the user lists the environments: env/prod stays,
\* env/dev is removed, inserted or moved
EnvironmentOrders ==
    {<<"env/dev", "env/prod">>, <<"env/prod", "env/dev">>, <<"env/prod">>}

\* the user rewrites spec.environments: environments removed, inserted or reordered
EditEnvironments(order) ==
    /\ LET prodAutoMerge == \A k \in 1..Len(ps.environments) : ps.environments[k].autoMerge
           environments == [k \in 1..Len(order) |-> Environment(order[k], prodAutoMerge)]
       IN  /\ ps.generation < MaxGeneration
           /\ environments # ps.environments
           /\ ps' = [ps EXCEPT !.environments = environments, !.generation = @ + 1]
    /\ last' = NotRun
    /\ UNCHANGED <<git, proposedCommits, commitStatuses, pullRequests, recon, prVars>>

\* the id that the provider assigns to the pull request of a branch
ProviderId(branch) == "pr:" \o branch

BranchState(branch, n) ==
    [dry |-> ShaState(DrySha(n), n), hydrated |-> ShaState(HydratedSha(branch, n), n)]

\* the ProposedCommit reconciler resolves the four SHAs from git and creates
\* the PullRequest of the environment, which the PullRequest reconciler opens
\* on the provider
ProposedCommitReconcile(pc) ==
    /\ pc \in proposedCommits
    /\ ~ShasPresent(pc)
    /\ proposedCommits' = (proposedCommits \ {pc}) \cup
           {[pc EXCEPT !.status = [active |-> BranchState(pc.activeBranch, git[pc.activeBranch].active),
                                   proposed |-> BranchState(pc.activeBranch, git[pc.activeBranch].proposed)]]}
    /\ pullRequests' = pullRequests \cup
           {[name |-> pc.proposedBranch \o "-" \o pc.activeBranch,
             environment |-> pc.activeBranch,
             specState |-> PullRequestOpen,
             statusState |-> PullRequestOpen,
             id |-> ProviderId(pc.activeBranch),
             prCreationTime |-> "now",
             finalizer |-> TRUE,
             deleting |-> FALSE,
             generation |-> 1,
             observedGeneration |-> 1]}
    /\ provider' = [provider EXCEPT ![pc.activeBranch] = "open"]
    /\ last' = NotRun
    /\ UNCHANGED <<ps, git, commitStatuses, recon, prLast, sinceFlip, call>>

\* ------------------------------------------------------------------------
\* PullRequestReconciler (unnamed/part_000) and the SCM provider
\* ------------------------------------------------------------------------

\* the pull request of a branch on the provider: none yet, open, merged, closed
ProviderStates == {"none", "open", "merged", "closed"}

\* prLast when the step just taken was not an invocation of the reconciler
PrNotRun ==
    [ran |-> FALSE, before |-> <<>>, providerBefore |-> "", calls |-> {}, failed |-> FALSE,
     closed |-> FALSE, deleteIssued |-> FALSE, requeue |-> FALSE, err |-> FALSE]

\* sinceFlip when no PullRequest in the store has been set to merged
NotFlipped == [flipped |-> FALSE, invocations |-> 0, errors |-> FALSE]

\* the API server on Delete and on the Update that drops the last finalizer:
\* a record with a finalizer gets its deletion timestamp and stays, a record
\* under deletion without finalizer is removed
DeleteRecord(pr) ==
    IF pr.finalizer
    THEN {[pr EXCEPT !.deleting = TRUE, !.generation = IF pr.deleting THEN @ ELSE @ + 1]}
    ELSE {}

\* the result of a part of an invocation: the record as the store holds it
\* (records: no element when it was removed), the record in memory, the
\* provider, the calls made on the provider
Outcome(records, pr, prov, calls, err) ==
    [records |-> records, pr |-> pr, provider |-> prov, calls |-> calls, err |-> err,
     closed |-> FALSE, deleted |-> FALSE]

\* provider Close succeeds or fails; a closed pull request is not open any more
closePullRequest(pr, prov, ok) ==
    IF pr.statusState = PullRequestMerged THEN Outcome({pr}, pr, prov, {}, FALSE)
    ELSE IF ~ok THEN Outcome({pr}, pr, prov, {"Close"}, TRUE)
    ELSE [Outcome({pr}, [pr EXCEPT !.statusState = PullRequestClosed],
                  IF prov = "open" THEN "closed" ELSE prov, {"Close"}, FALSE)
             EXCEPT !.closed = TRUE]

\* handleFinalizer that drops the finalizer without a call of closePullRequest
handleFinalizerWithoutClose(pr, prov, ok) ==
    IF ~pr.deleting
    THEN Outcome({[pr EXCEPT !.finalizer = TRUE]}, [pr EXCEPT !.finalizer = TRUE], prov, {}, FALSE)
    ELSE IF pr.finalizer
    THEN [Outcome(DeleteRecord([pr EXCEPT !.finalizer = FALSE]), pr, prov, {}, FALSE)
             EXCEPT !.deleted = TRUE]
    ELSE Outcome({pr}, pr, prov, {}, FALSE)

handleFinalizer(pr, prov, ok) ==
    IF ~pr.deleting
    THEN \* the finalizer is added when it is missing, and the record updated
         Outcome({[pr EXCEPT !.finalizer = TRUE]}, [pr EXCEPT !.finalizer = TRUE], prov, {}, FALSE)
    ELSE IF pr.finalizer
    THEN LET c == closePullRequest(pr, prov, ok)
         IN  IF c.err THEN c
             ELSE [c EXCEPT !.records = DeleteRecord([pr EXCEPT !.finalizer = FALSE]),
                            !.deleted = TRUE]
    ELSE Outcome({pr}, pr, prov, {}, FALSE)

\* createPullRequest that drops the id returned by the provider
createPullRequestWithoutId(o, ok) ==
    IF ~ok THEN [o EXCEPT !.calls = @ \cup {"Create"}, !.err = TRUE]
    ELSE [o EXCEPT !.calls = @ \cup {"Create"},
                   !.provider = "open",
                   !.pr.statusState = PullRequestOpen,
                   !.pr.prCreationTime = "now"]

\* provider Create succeeds or fails; status.state, the creation time and
\* the id returned are set in memory
createPullRequest(o, ok) ==
    IF ~ok THEN [o EXCEPT !.calls = @ \cup {"Create"}, !.err = TRUE]
    ELSE [o EXCEPT !.calls = @ \cup {"Create"},
                   !.provider = "open",
                   !.pr.statusState = PullRequestOpen,
                   !.pr.prCreationTime = "now",
                   !.pr.id = ProviderId(o.pr.environment)]

\* mergePullRequest that leaves status.state as it is
mergePullRequestStatusKept(o, ok) ==
    IF ~ok \/ o.provider # "open" THEN [o EXCEPT !.calls = @ \cup {"Merge"}, !.err = TRUE]
    ELSE [o EXCEPT !.calls = @ \cup {"Merge"}, !.provider = "merged"]

\* mergePullRequest that writes status.state to the store before the
\* provider has answered
mergePullRequestStatusFirst(o, ok) ==
    IF ~ok \/ o.provider # "open"
    THEN [o EXCEPT !.calls = @ \cup {"Merge"}, !.err = TRUE,
                   !.records = {[o.pr EXCEPT !.statusState = PullRequestMerged]}]
    ELSE [o EXCEPT !.calls = @ \cup {"Merge"},
                   !.provider = "merged",
                   !.pr.statusState = PullRequestMerged]

\* provider Merge succeeds on an open pull request only
mergePullRequest(o, ok) ==
    IF ~ok \/ o.provider # "open" THEN [o EXCEPT !.calls = @ \cup {"Merge"}, !.err = TRUE]
    ELSE [o EXCEPT !.calls = @ \cup {"Merge"},
                   !.provider = "merged",
                   !.pr.statusState = PullRequestMerged]

updatePullRequest(o, ok) ==
    IF ~ok THEN [o EXCEPT !.calls = @ \cup {"Update"}, !.err = TRUE]
    ELSE [o EXCEPT !.calls = @ \cup {"Update"}]

\* r.Status().Update of the record in memory
StatusUpdate(o) == [o EXCEPT !.records = {o.pr}]

\* a record that is never taken as gone from the provider
goneFromProviderNever(found, pr) ==
    FALSE

\* no open pull request on the provider for a record that had a status state
goneFromProvider(found, pr) ==
    ~found /\ pr.statusState # ""

\* Reconcile after handleFinalizer has returned false: the result, and
\* whether a requeue is asked for
ReconcileStates(h, ok, okUpdate) ==
    LET pr == h.pr
        found == h.provider = "open"
    IN  IF goneFromProvider(found, pr)
        THEN [result |-> [h EXCEPT !.records = DeleteRecord(pr)], requeue |-> FALSE, deleteIssued |-> TRUE]
        ELSE IF pr.statusState # "" /\ pr.specState = pr.statusState
                  /\ pr.observedGeneration = pr.generation
        THEN [result |-> h, requeue |-> FALSE, deleteIssued |-> FALSE]
        ELSE LET created == IF pr.specState = PullRequestOpen /\ pr.statusState # PullRequestOpen
                            THEN createPullRequest(h, ok)
                            ELSE h
             IN  IF created.err THEN [result |-> created, requeue |-> FALSE, deleteIssued |-> FALSE]
                 ELSE IF created.pr.specState = PullRequestMerged
                           /\ created.pr.statusState # PullRequestMerged
                 THEN LET merged == mergePullRequest(created, ok)
                      IN  IF merged.err THEN [result |-> merged, requeue |-> FALSE, deleteIssued |-> FALSE]
                          ELSE [result |-> StatusUpdate(merged), requeue |-> TRUE, deleteIssued |-> FALSE]
                 ELSE IF created.pr.specState = PullRequestClosed
                           /\ created.pr.statusState # PullRequestClosed
                 THEN LET c == closePullRequest(created.pr, created.provider, ok)
                      IN  IF c.err THEN [result |-> c, requeue |-> FALSE, deleteIssued |-> FALSE]
                          ELSE [result |-> StatusUpdate(c), requeue |-> TRUE, deleteIssued |-> FALSE]
                 ELSE LET updated == IF created.pr.observedGeneration # created.pr.generation
                                     THEN updatePullRequest(created, okUpdate)
                                     ELSE created
                      IN  IF updated.err THEN [result |-> updated, requeue |-> FALSE, deleteIssued |-> FALSE]
                          ELSE [result |-> StatusUpdate([updated EXCEPT
                                               !.pr.observedGeneration = updated.pr.generation]),
                                requeue |-> FALSE, deleteIssued |-> FALSE]

\* an invocation of PullRequestReconciler.Reconcile for a record of the
\* store; ok and okUpdate are what the provider answers to the calls
PullRequestReconcile(pr, ok, okUpdate) ==
    /\ pr \in pullRequests
    /\ LET h == handleFinalizer(pr, provider[pr.environment], ok)
           r == IF h.err \/ h.deleted
                THEN [result |-> h, requeue |-> FALSE, deleteIssued |-> FALSE]
                ELSE LET s == ReconcileStates(h, ok, okUpdate)
                     IN  [s EXCEPT !.result.calls = h.calls \cup @,
                                   !.result.closed = h.closed \/ @]
       IN  /\ pullRequests' = (pullRequests \ {pr}) \cup r.result.records
           /\ provider' = [provider EXCEPT ![pr.environment] = r.result.provider]
           /\ prLast' = [ran |-> TRUE, before |-> pr, providerBefore |-> provider[pr.environment],
                         calls |-> r.result.calls, failed |-> r.result.err,
                         closed |-> r.result.closed, deleteIssued |-> r.deleteIssued,
                         requeue |-> r.requeue, err |-> r.result.err]
           /\ sinceFlip' = IF sinceFlip.flipped
                           THEN [sinceFlip EXCEPT
                                    !.invocations = IF @ < MaxInvocations THEN @ + 1 ELSE @,
                                    !.errors = @ \/ r.result.err]
                           ELSE sinceFlip
    /\ UNCHANGED psVars

\* an invocation in which FindOpen returns an error: handleFinalizer has
\* returned false without error, Reconcile returns the error of FindOpen
PullRequestFindOpenFails(pr) ==
    /\ pr \in pullRequests
    /\ LET h == handleFinalizer(pr, provider[pr.environment], TRUE)
       IN  /\ ~h.deleted
           /\ pullRequests' = (pullRequests \ {pr}) \cup h.records
           /\ prLast' = [ran |-> TRUE, before |-> pr, providerBefore |-> provider[pr.environment],
                         calls |-> {"FindOpen"}, failed |-> TRUE,
                         closed |-> FALSE, deleteIssued |-> FALSE,
                         requeue |-> FALSE, err |-> TRUE]
           /\ sinceFlip' = IF sinceFlip.flipped
                           THEN [sinceFlip EXCEPT
                                    !.invocations = IF @ < MaxInvocations THEN @ + 1 ELSE @,
                                    !.errors = TRUE]
                           ELSE sinceFlip
    /\ UNCHANGED <<psVars, provider>>

\* the PromotionStrategy reconciler finds the listed PullRequest with desired
\* and observed state open and enters the retry loop
PromotionStrategyList(pr) ==
    /\ recon.phase = "idle"
    /\ pr \in pullRequests
    /\ pr.specState = PullRequestOpen
    /\ pr.statusState = PullRequestOpen
    /\ recon' = [phase |-> "flip", name |-> pr.name]
    /\ prLast' = PrNotRun
    /\ UNCHANGED <<ps, git, proposedCommits, commitStatuses, last, call, pullRequests, provider, sinceFlip>>

\* a retry loop that returns without the write
PromotionStrategyFlipSkipped(pr) ==
    /\ recon.phase = "flip"
    /\ pr \in pullRequests
    /\ pr.name = recon.name
    /\ recon' = Idle
    /\ prLast' = PrNotRun
    /\ UNCHANGED <<ps, git, proposedCommits, commitStatuses, last, call, pullRequests, provider, sinceFlip>>

\* the retry loop reads the PullRequest again by its name, sets the desired
\* state of what it has read to merged and updates the record
PromotionStrategyFlip(pr) ==
    /\ recon.phase = "flip"
    /\ pr \in pullRequests
    /\ pr.name = recon.name
    /\ pullRequests' = (pullRequests \ {pr}) \cup
           {[pr EXCEPT !.specState = PullRequestMerged,
                       !.generation = IF pr.specState = PullRequestMerged THEN @ ELSE @ + 1]}
    /\ sinceFlip' = [flipped |-> TRUE, invocations |-> 0, errors |-> FALSE]
    /\ recon' = Idle
    /\ prLast' = PrNotRun
    /\ UNCHANGED <<ps, git, proposedCommits, commitStatuses, last, call, provider>>

\* the retry loop does not find the PullRequest any more: r.Get returns an
\* error and Reconcile returns it
PromotionStrategyFlipNotFound ==
    /\ recon.phase = "flip"
    /\ \A pr \in pullRequests : pr.name # recon.name
    /\ recon' = Idle
    /\ prLast' = PrNotRun
    /\ UNCHANGED <<ps, git, proposedCommits, commitStatuses, last, call, pullRequests, provider, sinceFlip>>

\* somebody merges or closes the pull request on the provider
ProviderChange(branch, state) ==
    /\ provider[branch] = "open"
    /\ state \in {"merged", "closed"}
    /\ provider' = [provider EXCEPT ![branch] = state]
    /\ prLast' = PrNotRun
    /\ UNCHANGED <<psVars, pullRequests, sinceFlip>>

\* the user, or the cascading deletion of the strategy, deletes the record
DeletePullRequest(pr) ==
    /\ pr \in pullRequests
    /\ ~pr.deleting
    /\ pullRequests' = (pullRequests \ {pr}) \cup DeleteRecord(pr)
    /\ prLast' = PrNotRun
    /\ UNCHANGED <<psVars, provider, sinceFlip>>

\* the user sets the desired state of the record to closed
ClosePullRequest(pr) ==
    /\ pr \in pullRequests
    /\ ~pr.deleting
    /\ pr.specState = PullRequestOpen
    /\ pullRequests' = (pullRequests \ {pr}) \cup
           {[pr EXCEPT !.specState = PullRequestClosed, !.generation = @ + 1]}
    /\ prLast' = PrNotRun
    /\ UNCHANGED <<psVars, provider, sinceFlip>>

\* the record as the ProposedCommit reconciler creates it
NewPullRequest(branch) ==
    [name |-> branch \o "-next-" \o branch,
     environment |-> branch,
     specState |-> PullRequestOpen,
     statusState |-> "",
     id |-> "",
     prCreationTime |-> "",
     finalizer |-> FALSE,
     deleting |-> FALSE,
     generation |-> 1,
     observedGeneration |-> 0]

\* the ProposedCommit reconciler creates the record when there is none
CreatePullRequest(branch) ==
    /\ pullRequests = {}
    /\ pullRequests' = {NewPullRequest(branch)}
    /\ sinceFlip' = NotFlipped
    /\ prLast' = PrNotRun
    /\ UNCHANGED <<psVars, provider>>

\* ------------------------------------------------------------------------
\* Calls of the utils functions on their own
\* ------------------------------------------------------------------------

\* call when no utils function is called on its own
NoCall == [op |-> "", arg |-> <<>>, out |-> <<>>]

\* the characters of the names given: letters of both cases, a digit, and
\* characters that m1 replaces
NameAlphabet == {"a", "Z", "7", "-", ".", "_", "/"}

NamesUpTo(n) == UNION {[1..m -> NameAlphabet] : m \in 0..n}

\* a run of n letters
Letters(n) == [k \in 1..n |-> "a"]

\* the names given to KubeSafeLabel: the short ones, and ones with a run of
\* about the 63 characters of a label
LabelInputs ==
    NamesUpTo(MaxNameLen)
        \cup {first \o Letters(n) \o second :
                  first \in NamesUpTo(MaxNameLen), second \in NamesUpTo(1), n \in {61, 62, 63}}

\* the names given to KubeSafeUniqueName: the short ones but the empty one,
\* and ones with a run of about the 255 characters of a name
UniqueNameInputs ==
    (NamesUpTo(MaxNameLen) \ {<<>>})
        \cup {first \o Letters(n) \o second :
                  first \in {<<>>, <<"Z">>, <<"/">>}, second \in {<<>>, <<"7">>, <<".">>},
                  n \in {236, 237, 238, 246}}

\* status entries of a branch, as calculateStatus makes them
StatusEntries ==
    {NewEnvironmentStatus(Environment(branch, TRUE),
                          [status |-> [active |-> BranchState(branch, n),
                                       proposed |-> BranchState(branch, NewestDryCommit)]]) :
        branch \in Branches, n \in DryCommits}

StatusLists == UNION {[1..m -> StatusEntries] : m \in 0..MaxEntries}

CallInputs ==
    {[op |-> "KubeSafeLabel", arg |-> name, out |-> <<>>] : name \in LabelInputs}
        \cup {[op |-> "KubeSafeUniqueName", arg |-> name, out |-> <<>>] : name \in UniqueNameInputs}
        \cup {[op |-> "UpsertEnvironmentStatus", arg |-> <<slice, i>>, out |-> <<>>] :
                  slice \in StatusLists, i \in StatusEntries}

CallKubeSafeLabel ==
    /\ call.op = "KubeSafeLabel"
    /\ call.out = <<>>
    /\ call' = [call EXCEPT !.out = <<KubeSafeLabel(call.arg)>>]
    /\ UNCHANGED <<ps, git, proposedCommits, commitStatuses, pullRequests, recon, last,
                   provider, prLast, sinceFlip>>

CallKubeSafeUniqueName ==
    /\ call.op = "KubeSafeUniqueName"
    /\ call.out = <<>>
    /\ call' = [call EXCEPT !.out = <<KubeSafeUniqueName(call.arg)>>]
    /\ UNCHANGED <<ps, git, proposedCommits, commitStatuses, pullRequests, recon, last,
                   provider, prLast, sinceFlip>>

CallUpsertEnvironmentStatus ==
    /\ call.op = "UpsertEnvironmentStatus"
    /\ call.out = <<>>
    /\ call' = [call EXCEPT !.out = <<UpsertEnvironmentStatus(call.arg[1], call.arg[2])>>]
    /\ UNCHANGED <<ps, git, proposedCommits, commitStatuses, pullRequests, recon, last,
                   provider, prLast, sinceFlip>>

\* ------------------------------------------------------------------------
\* Initial states
\* ------------------------------------------------------------------------

\* the checks write their records in namespaces of their own: r.List of
\* CommitStatus names no namespace
NamespaceOf(name) == IF name = CSNames[1] THEN PsNamespace ELSE "checks"

\* what a check can have written: key, branch and side of the commit, state
ReportSeq ==
    <<[key |-> ActiveKeyGlobal, branch |-> "env/dev", side |-> "active", state |-> CommitSuccess],
      [key |-> ActiveKeyGlobal, branch |-> "env/dev", side |-> "active", state |-> CommitPending],
      [key |-> ActiveKeyGlobal, branch |-> "env/prod", side |-> "active", state |-> CommitSuccess],
      [key |-> ActiveKeyGlobal, branch |-> "env/prod", side |-> "active", state |-> CommitPending],
      [key |-> ActiveKeyProd, branch |-> "env/prod", side |-> "active", state |-> CommitSuccess],
      [key |-> ActiveKeyProd, branch |-> "env/prod", side |-> "active", state |-> CommitPending],
      [key |-> ProposedKeyGlobal, branch |-> "env/dev", side |-> "proposed", state |-> CommitSuccess],
      [key |-> ProposedKeyGlobal, branch |-> "env/dev", side |-> "proposed", state |-> CommitPending],
      [key |-> ProposedKeyGlobal, branch |-> "env/prod", side |-> "proposed", state |-> CommitSuccess],
      [key |-> ProposedKeyGlobal, branch |-> "env/prod", side |-> "proposed", state |-> CommitPending]>>

CommitStatusOf(name, r, g) ==
    [name |-> name,
     namespace |-> NamespaceOf(name),
     key |-> r.key,
     copy |-> FALSE,
     sha |-> HydratedSha(r.branch, IF r.side = "active" THEN g[r.branch].active ELSE g[r.branch].proposed),
     specName |-> r.key,
     specState |-> r.state,
     statusState |-> r.state]

\* up to MaxCS reports, as indices of ReportSeq in increasing order
ReportLists ==
    {reports \in UNION {[1..n -> 1..Len(ReportSeq)] : n \in 0..MaxCS} :
        \A k \in 1..(Len(reports) - 1) : reports[k] <= reports[k + 1]}

\* the keys some environment of the strategy is gated on
ConfiguredKeys(p) ==
    {ActiveKeyProd} \cup {p.activeCommitStatuses[k] : k \in 1..Len(p.activeCommitStatuses)}
                    \cup {p.proposedCommitStatuses[k] : k \in 1..Len(p.proposedCommitStatuses)}

\* every proposed branch carries the newest dry commit, an active branch any
GitStates ==
    {g \in [Branches -> [active : DryCommits, proposed : DryCommits]] :
        \A b \in Branches : g[b].proposed = NewestDryCommit}

Init ==
    /\ \E prodAutoMerge \in BOOLEAN,
          activeKeys \in {<<>>, <<ActiveKeyGlobal>>},
          proposedKeys \in {<<>>, <<ProposedKeyGlobal>>} :
           ps = [generation |-> 1,
                 environments |-> <<Environment("env/dev", prodAutoMerge), Environment("env/prod", prodAutoMerge)>>,
                 activeCommitStatuses |-> activeKeys,
                 proposedCommitStatuses |-> proposedKeys,
                 status |-> <<>>]
    /\ git \in GitStates
    /\ \E reports \in ReportLists :
           /\ \A k \in 1..Len(reports) : ReportSeq[reports[k]].key \in ConfiguredKeys(ps)
           /\ commitStatuses = {CommitStatusOf(CSNames[k], ReportSeq[reports[k]], git) : k \in 1..Len(reports)}
    /\ proposedCommits = {}
    /\ pullRequests = {}
    /\ recon = Idle
    /\ last = NotRun
    /\ provider = [branch \in AllBranches |-> "none"]
    /\ prLast = PrNotRun
    /\ sinceFlip = NotFlipped
    /\ call = NoCall

Next ==
    \/ Reconcile
    \/ ReconcileResume
    \/ \E order \in EnvironmentOrders : EditEnvironments(order)
    \/ \E pc \in proposedCommits : ProposedCommitReconcile(pc)

Spec == Init /\ [][Next]_vars

\* up to MaxCS + 1 reports
GateReportLists ==
    {reports \in UNION {[1..n -> 1..Len(ReportSeq)] : n \in 0..(MaxCS + 1)} :
        \A k \in 1..(Len(reports) - 1) : reports[k] <= reports[k + 1]}

\* the strategy gated on a global active and a global proposed key, and one
\* more report than in Init: both gates of env/prod can fail apart
InitGate ==
    /\ \E prodAutoMerge \in BOOLEAN :
           ps = [generation |-> 1,
                 environments |-> <<Environment("env/dev", prodAutoMerge), Environment("env/prod", prodAutoMerge)>>,
                 activeCommitStatuses |-> <<ActiveKeyGlobal>>,
                 proposedCommitStatuses |-> <<ProposedKeyGlobal>>,
                 status |-> <<>>]
    /\ git \in GitStates
    /\ \E reports \in GateReportLists :
           commitStatuses = {CommitStatusOf(CSNames[k], ReportSeq[reports[k]], git) : k \in 1..Len(reports)}
    /\ proposedCommits = {}
    /\ pullRequests = {}
    /\ recon = Idle
    /\ last = NotRun
    /\ provider = [branch \in AllBranches |-> "none"]
    /\ prLast = PrNotRun
    /\ sinceFlip = NotFlipped
    /\ call = NoCall

SpecGate == InitGate /\ [][Next]_vars

\* status.phase of a record: empty before the CommitStatus reconciler has
\* written it, then what it has last observed
ObservedStates == {"", CommitPending, CommitSuccess}

\* as Init with a global active key, and records whose status.phase is not
\* bound to their spec.phase
InitUnreconciled ==
    /\ \E prodAutoMerge \in BOOLEAN :
           ps = [generation |-> 1,
                 environments |-> <<Environment("env/dev", prodAutoMerge), Environment("env/prod", prodAutoMerge)>>,
                 activeCommitStatuses |-> <<ActiveKeyGlobal>>,
                 proposedCommitStatuses |-> <<>>,
                 status |-> <<>>]
    /\ git \in GitStates
    /\ \E reports \in ReportLists :
           \E observed \in [1..Len(reports) -> ObservedStates] :
               /\ \A k \in 1..Len(reports) : ReportSeq[reports[k]].key \in ConfiguredKeys(ps)
               /\ commitStatuses =
                      {[CommitStatusOf(CSNames[k], ReportSeq[reports[k]], git) EXCEPT !.statusState = observed[k]] :
                          k \in 1..Len(reports)}
    /\ proposedCommits = {}
    /\ pullRequests = {}
    /\ recon = Idle
    /\ last = NotRun
    /\ provider = [branch \in AllBranches |-> "none"]
    /\ prLast = PrNotRun
    /\ sinceFlip = NotFlipped
    /\ call = NoCall

SpecUnreconciled == InitUnreconciled /\ [][Next]_vars

\* a strategy whose two environments have any two branches of the model, names
\* that differ in case or punctuation only among them, before any check has
\* reported
InitNames ==
    /\ \E first \in AllBranches, second \in AllBranches,
          activeKeys \in {<<>>, <<ActiveKeyGlobal>>} :
           /\ first # second
           /\ ps = [generation |-> 1,
                    environments |-> <<Environment(first, TRUE), Environment(second, TRUE)>>,
                    activeCommitStatuses |-> activeKeys,
                    proposedCommitStatuses |-> <<>>,
                    status |-> <<>>]
    /\ git \in {g \in [AllBranches -> [active : DryCommits, proposed : DryCommits]] :
                    \A b \in AllBranches : g[b].proposed = NewestDryCommit}
    /\ commitStatuses = {}
    /\ proposedCommits = {}
    /\ pullRequests = {}
    /\ recon = Idle
    /\ last = NotRun
    /\ provider = [branch \in AllBranches |-> "none"]
    /\ prLast = PrNotRun
    /\ sinceFlip = NotFlipped
    /\ call = NoCall

SpecNames == InitNames /\ [][Next]_vars

\* the PullRequest of env/dev, as the ProposedCommit reconciler has created it,
\* and nothing on the provider; the strategy is left as it is
InitPullRequest ==
    /\ ps = [generation |-> 1,
             environments |-> <<Environment("env/dev", TRUE)>>,
             activeCommitStatuses |-> <<>>,
             proposedCommitStatuses |-> <<>>,
             status |-> <<>>]
    /\ git \in {g \in GitStates : \A b \in Branches : g[b].active = NewestDryCommit}
    /\ commitStatuses = {}
    /\ proposedCommits = {}
    /\ pullRequests = {NewPullRequest("env/dev")}
    /\ recon = Idle
    /\ last = NotRun
    /\ provider = [branch \in AllBranches |-> "none"]
    /\ prLast = PrNotRun
    /\ sinceFlip = NotFlipped
    /\ call = NoCall

NextPullRequest ==
    \/ \E pr \in pullRequests, ok \in BOOLEAN, okUpdate \in BOOLEAN : PullRequestReconcile(pr, ok, okUpdate)
    \/ \E pr \in pullRequests : PullRequestFindOpenFails(pr)
    \/ \E pr \in pullRequests : PromotionStrategyList(pr)
    \/ \E pr \in pullRequests : PromotionStrategyFlip(pr)
    \/ PromotionStrategyFlipNotFound
    \/ \E state \in ProviderStates : ProviderChange("env/dev", state)
    \/ \E pr \in pullRequests : DeletePullRequest(pr)
    \/ \E pr \in pullRequests : ClosePullRequest(pr)
    \/ CreatePullRequest("env/dev")

SpecPullRequest == InitPullRequest /\ [][NextPullRequest]_vars

\* a utils function is about to be called on one of the inputs
InitUtils ==
    /\ ps = [generation |-> 1,
             environments |-> <<Environment("env/dev", TRUE)>>,
             activeCommitStatuses |-> <<>>,
             proposedCommitStatuses |-> <<>>,
             status |-> <<>>]
    /\ git = [b \in Branches |-> [active |-> NewestDryCommit, proposed |-> NewestDryCommit]]
    /\ commitStatuses = {}
    /\ proposedCommits = {}
    /\ pullRequests = {}
    /\ recon = Idle
    /\ last = NotRun
    /\ provider = [branch \in AllBranches |-> "none"]
    /\ prLast = PrNotRun
    /\ sinceFlip = NotFlipped
    /\ call \in CallInputs

NextUtils ==
    \/ CallKubeSafeLabel
    \/ CallKubeSafeUniqueName
    \/ CallUpsertEnvironmentStatus

SpecUtils == InitUtils /\ [][NextUtils]_vars

\* the PullRequests of both environments as the ProposedCommit reconciler has
\* created them, nothing on the provider yet
InitPromotion ==
    /\ ps = [generation |-> 1,
             environments |-> <<Environment("env/dev", TRUE), Environment("env/prod", TRUE)>>,
             activeCommitStatuses |-> <<>>,
             proposedCommitStatuses |-> <<>>,
             status |-> <<>>]
    /\ git \in {g \in GitStates : \A b \in Branches : g[b].active = NewestDryCommit}
    /\ commitStatuses = {}
    /\ proposedCommits = {}
    /\ pullRequests = {NewPullRequest(branch) : branch \in Branches}
    /\ recon = Idle
    /\ last = NotRun
    /\ provider = [branch \in AllBranches |-> "none"]
    /\ prLast = PrNotRun
    /\ sinceFlip = NotFlipped
    /\ call = NoCall

\* the two reconcilers while the merge condition of both environments holds
\* and nobody else touches the PullRequests
NextPromotion ==
    \/ \E pr \in pullRequests, ok \in BOOLEAN, okUpdate \in BOOLEAN : PullRequestReconcile(pr, ok, okUpdate)
    \/ \E pr \in pullRequests : PullRequestFindOpenFails(pr)
    \/ \E pr \in pullRequests : PromotionStrategyList(pr)
    \/ \E pr \in pullRequests : PromotionStrategyFlip(pr)

\* the PromotionStrategy reconciler is invoked again every RequeueAfter
\* seconds and its retry loop ends; the PullRequest reconciler is invoked on
\* every change of a record, on its own requeue and again after an error,
\* and the provider does not fail for ever
SpecPromotion ==
    /\ InitPromotion
    /\ [][NextPromotion]_vars
    /\ \A branch \in Branches :
           /\ WF_vars(\E pr \in pullRequests : pr.environment = branch /\ PromotionStrategyList(pr))
           /\ WF_vars(\E pr \in pullRequests : pr.environment = branch /\ PullRequestReconcile(pr, TRUE, TRUE))
    /\ WF_vars(\E pr \in pullRequests : PromotionStrategyFlip(pr))

\* a new dry commit is hydrated and pushed to the proposed branch of an environment
PushProposed(branch) ==
    /\ git[branch].proposed < NewestDryCommit
    /\ git' = [git EXCEPT ![branch].proposed = @ + 1]
    /\ UNCHANGED <<ps, proposedCommits, commitStatuses, pullRequests, recon, last, prVars>>

\* a strategy without gates whose proposed branches carry the oldest dry
\* commit: a newer one can still be pushed
InitMerge ==
    /\ ps = [generation |-> 1,
             environments |-> <<Environment("env/dev", TRUE), Environment("env/prod", TRUE)>>,
             activeCommitStatuses |-> <<>>,
             proposedCommitStatuses |-> <<>>,
             status |-> <<>>]
    /\ git \in {g \in [Branches -> [active : DryCommits, proposed : DryCommits]] :
                    \A b \in Branches : g[b].proposed < NewestDryCommit}
    /\ commitStatuses = {}
    /\ proposedCommits = {}
    /\ pullRequests = {}
    /\ recon = Idle
    /\ last = NotRun
    /\ provider = [branch \in AllBranches |-> "none"]
    /\ prLast = PrNotRun
    /\ sinceFlip = NotFlipped
    /\ call = NoCall

\* both reconcilers at work while commits are pushed
NextMerge ==
    \/ Reconcile
    \/ ReconcileResume
    \/ \E pc \in proposedCommits : ProposedCommitReconcile(pc)
    \/ \E branch \in Branches : PushProposed(branch)
    \/ \E pr \in pullRequests, ok \in BOOLEAN, okUpdate \in BOOLEAN : PullRequestReconcile(pr, ok, okUpdate)

SpecMerge == InitMerge /\ [][NextMerge]_vars

\* as InitGate with autoMerge on and the reports of Init
InitStore ==
    /\ ps = [generation |-> 1,
             environments |-> <<Environment("env/dev", TRUE), Environment("env/prod", TRUE)>>,
             activeCommitStatuses |-> <<ActiveKeyGlobal>>,
             proposedCommitStatuses |-> <<ProposedKeyGlobal>>,
             status |-> <<>>]
    /\ git \in GitStates
    /\ \E reports \in ReportLists :
           commitStatuses = {CommitStatusOf(CSNames[k], ReportSeq[reports[k]], git) : k \in 1..Len(reports)}
    /\ proposedCommits = {}
    /\ pullRequests = {}
    /\ recon = Idle
    /\ last = NotRun
    /\ provider = [branch \in AllBranches |-> "none"]
    /\ prLast = PrNotRun
    /\ sinceFlip = NotFlipped
    /\ call = NoCall

\* the reconciler with store calls that fail, a context that is cancelled
\* and a strategy that is deleted
NextStore ==
    \/ Reconcile
    \/ ReconcileResume
    \/ ReconcileNotFound
    \/ ReconcileGetError
    \/ \E stage \in StoreStages \cup {"proposedCommit"}, failAt \in 1..Cardinality(Branches) :
           ReconcileStoreError(stage, failAt)
    \/ \E stage \in StoreStages \cup {"proposedCommit"}, failAt \in 1..Cardinality(Branches) :
           ReconcileResumeStoreError(stage, failAt)
    \/ CancelContext
    \/ WaitPoll
    \/ DeleteStrategy
    \/ \E pc \in proposedCommits : ProposedCommitReconcile(pc)

SpecStore == InitStore /\ [][NextStore]_vars

\* the strategy of InitStore with its status written, env/dev active on the
\* dry commit that env/prod proposes, and the records of up to MaxCS + 1
\* reports: the copy condition of env/prod holds
InitCopy ==
    /\ git \in {g \in GitStates : g["env/dev"].active = g["env/prod"].proposed}
    /\ \E reports \in GateReportLists :
           commitStatuses = {CommitStatusOf(CSNames[k], ReportSeq[reports[k]], git) : k \in 1..Len(reports)}
    /\ proposedCommits =
           {[NewProposedCommit(branch) EXCEPT
                !.status = [active |-> BranchState(branch, git[branch].active),
                            proposed |-> BranchState(branch, git[branch].proposed)]] : branch \in Branches}
    /\ ps = [generation |-> 1,
             environments |-> <<Environment("env/dev", TRUE), Environment("env/prod", TRUE)>>,
             activeCommitStatuses |-> <<ActiveKeyGlobal>>,
             proposedCommitStatuses |-> <<ProposedKeyGlobal>>,
             status |-> [k \in 1..2 |->
                            NewEnvironmentStatus(Environment(<<"env/dev", "env/prod">>[k], TRUE),
                                CHOOSE pc \in proposedCommits :
                                    pc.activeBranch = <<"env/dev", "env/prod">>[k])]]
    /\ pullRequests = {}
    /\ recon = Idle
    /\ last = NotRun
    /\ provider = [branch \in AllBranches |-> "none"]
    /\ prLast = PrNotRun
    /\ sinceFlip = NotFlipped
    /\ call = NoCall

\* the copy step of the second loop of Reconcile for the environment at
\* position k, in an invocation that has read the strategy and the
\* ProposedCommits as they are in the store
CopyForward(k) ==
    /\ k \in 2..Len(ps.environments)
    /\ LET environment == ps.environments[k]
           prev == GetPreviousEnvironmentStatusByBranch(ps.environments, ps.status, environment.branch)
           pc == CHOOSE c \in proposedCommits : c.name = ProposedCommitName(environment.branch)
       IN  /\ copyCondition(prev, pc)
           /\ commitStatuses' = copyCommitStatuses(commitStatuses,
                                     environment.activeCommitStatuses \o ps.activeCommitStatuses,
                                     prev[1].active.hydrated.sha, pc.status.proposed.hydrated.sha,
                                     prev[1].branch)
    /\ UNCHANGED <<ps, git, proposedCommits, pullRequests, recon, last, prVars>>

NextCopy == \E k \in 1..Cardinality(Branches) : CopyForward(k)

\* Reconcile asks for a requeue after RequeueAfter seconds: on a strategy that
\* nobody edits the copy step is taken again and again
SpecCopy == InitCopy /\ [][NextCopy]_vars /\ WF_vars(NextCopy)

\* ------------------------------------------------------------------------
\* What the claims speak of, read from the state
\* ------------------------------------------------------------------------

\* the status entry of a branch in a status list
EntryOf(statusEnvironments, branch) ==
    statusEnvironments[CHOOSE n \in 1..Len(statusEnvironments) : statusEnvironments[n].branch = branch]

\* the environments of the invocation just completed, by position in the spec
LastPositions == 1..Len(last.environments)

LastBranch(k) == last.environments[k].branch

LastOwn(k) == EntryOf(last.status, LastBranch(k))

LastPrevious(k) == EntryOf(last.status, LastBranch(k - 1))

LastProposedCommit(k) == last.pcMap[LastBranch(k)]

LastActiveKeys(k) == last.environments[k].activeCommitStatuses \o last.activeCommitStatuses

LastProposedKeys(k) == last.environments[k].proposedCommitStatuses \o last.proposedCommitStatuses

\* the non-copy records of a key on a SHA; the checks' records do not change
Matching(key, sha) ==
    {cs \in commitStatuses : ~cs.copy /\ cs.key = key /\ cs.sha = sha}

ActiveMatching(k, n) ==
    Matching(LastActiveKeys(k)[n], LastProposedCommit(k).status.active.hydrated.sha)

ProposedMatching(k, n) ==
    Matching(LastProposedKeys(k)[n], LastProposedCommit(k).status.proposed.hydrated.sha)

\* the PR of a branch is in the store with desired and observed state open
OpenPullRequest(branch) ==
    \E pr \in pullRequests :
        pr.environment = branch /\ pr.specState = PullRequestOpen /\ pr.statusState = PullRequestOpen

\* the two gates of position k >= 2 as the spec words them
PreviousGateGreen(k) ==
    /\ LastPrevious(k).active.commitStatus.state = "success"
    /\ LastPrevious(k).active.dry.sha = LastProposedCommit(k).status.proposed.dry.sha
    /\ LastPrevious(k).active.dry.commitTime > LastOwn(k).active.dry.commitTime

\* ------------------------------------------------------------------------
\* C1 to C10
\* ------------------------------------------------------------------------

\* C1: an invocation sets the PR of a non-first environment to merged only
\* when the status entry of the previous environment in spec order has active
\* rollup state success and an active dry SHA equal to the proposed dry SHA of
\* the environment's ProposedCommit.
C1_FlipOnlyAfterPreviousSuccess ==
    last.ran =>
        \A k \in LastPositions \ {1} :
            LastBranch(k) \in last.flipped =>
                /\ LastPrevious(k).active.commitStatus.state = "success"
                /\ LastPrevious(k).active.dry.sha = LastProposedCommit(k).status.proposed.dry.sha

\* an invocation has set the PR of a non-first environment to merged
C1_Witness ==
    /\ last.ran
    /\ \E k \in LastPositions \ {1} : LastBranch(k) \in last.flipped

\* C2, as claimed: a non-first environment whose own active rollup state is
\* not success does not have its PR set to merged.
C2_OwnActiveStateGates ==
    last.ran =>
        \A k \in LastPositions \ {1} :
            LastOwn(k).active.commitStatus.state # "success" => LastBranch(k) \notin last.flipped

\* C2, amended: a non-first environment does not have its PR set to merged
\* when the active rollup state of the environment before it is not success.
C2_PreviousActiveStateGates ==
    last.ran =>
        \A k \in LastPositions \ {1} :
            LastPrevious(k).active.commitStatus.state # "success" => LastBranch(k) \notin last.flipped

\* the previous environment's rollup alone keeps an open PR from being merged
C2_Witness ==
    /\ last.ran
    /\ \E k \in LastPositions \ {1} :
           /\ LastPrevious(k).active.commitStatus.state # "success"
           /\ LastPrevious(k).active.dry.sha = LastProposedCommit(k).status.proposed.dry.sha
           /\ LastPrevious(k).active.dry.commitTime > LastOwn(k).active.dry.commitTime
           /\ LastOwn(k).proposed.commitStatus.state = "success"
           /\ last.environments[k].autoMerge
           /\ OpenPullRequest(LastBranch(k))

\* C3: the PR of the first environment is set to merged only when that
\* environment's proposed rollup state is success.
C3_FirstGatedByOwnProposed ==
    last.ran =>
        (LastBranch(1) \in last.flipped => LastOwn(1).proposed.commitStatus.state = "success")

\* C4: the PR of an environment whose autoMerge is false keeps desired state
\* open, whatever the rollups and SHAs are and whatever its position.
C4_NoAutoMergeStaysOpen ==
    \A k \in 1..Len(ps.environments) :
        ~ps.environments[k].autoMerge =>
            /\ \A pr \in pullRequests :
                   pr.environment = ps.environments[k].branch => pr.specState = PullRequestOpen
            /\ last.ran => ps.environments[k].branch \notin last.flipped

\* an invocation has left the open PR of an autoMerge=false environment open
\* with every gate green
C4_Witness ==
    /\ last.ran
    /\ \E k \in LastPositions :
           /\ ~last.environments[k].autoMerge
           /\ OpenPullRequest(LastBranch(k))
           /\ LastOwn(k).proposed.commitStatus.state = "success"
           /\ k = 1 \/ PreviousGateGreen(k)

\* C5: an environment with no effective active key has active rollup state
\* success with the active hydrated SHA of its ProposedCommit.
C5_NoActiveKeysActiveSuccess ==
    last.ran =>
        \A k \in LastPositions :
            LastActiveKeys(k) = <<>> =>
                LastOwn(k).active.commitStatus =
                    [state |-> "success", sha |-> LastProposedCommit(k).status.active.hydrated.sha]

\* C6: an environment with no effective proposed key has proposed rollup
\* state success with the active hydrated SHA of its ProposedCommit.
C6_NoProposedKeysProposedSuccess ==
    last.ran =>
        \A k \in LastPositions :
            LastProposedKeys(k) = <<>> =>
                LastOwn(k).proposed.commitStatus =
                    [state |-> "success", sha |-> LastProposedCommit(k).status.active.hydrated.sha]

\* C7: an environment with an effective active key that has no match, or more
\* than one, on its active hydrated SHA does not have active rollup state
\* success.
C7_ActiveSentinelBlocks ==
    last.ran =>
        \A k \in LastPositions :
            (\E n \in 1..Len(LastActiveKeys(k)) : Cardinality(ActiveMatching(k, n)) # 1) =>
                LastOwn(k).active.commitStatus.state \in {"no-commit-status-found", "to-many-matching-sha"}

\* C8: an environment with an effective proposed key that has no match, or
\* more than one, on its proposed hydrated SHA has a sentinel, not success, as
\* proposed rollup state.
C8_ProposedSentinelBlocks ==
    last.ran =>
        \A k \in LastPositions :
            (\E n \in 1..Len(LastProposedKeys(k)) : Cardinality(ProposedMatching(k, n)) # 1) =>
                LastOwn(k).proposed.commitStatus.state \in {"no-commit-status-found", "to-many-matching-sha"}

\* C9: when every effective proposed key has exactly one match on the proposed
\* hydrated SHA, the proposed rollup state is success if all those records are
\* success and otherwise the state of one of them that is not.
C9_ProposedRollupFromProposedRecords ==
    last.ran =>
        \A k \in LastPositions :
            LET records == UNION {ProposedMatching(k, n) : n \in 1..Len(LastProposedKeys(k))}
            IN  (\A n \in 1..Len(LastProposedKeys(k)) : Cardinality(ProposedMatching(k, n)) = 1) =>
                    IF \A cs \in records : cs.statusState = "success"
                    THEN LastOwn(k).proposed.commitStatus.state = "success"
                    ELSE \E cs \in records :
                             /\ cs.statusState # "success"
                             /\ LastOwn(k).proposed.commitStatus = [state |-> cs.specState, sha |-> cs.sha]

\* C10: with two records matching the only active key of env/dev on its
\* active hydrated SHA, env/dev has active rollup state to-many-matching-sha
\* and its PR is not set to merged, wherever env/dev stands in the list.
C10_TooManyBlocksDev ==
    last.ran =>
        \A k \in LastPositions :
            (/\ LastBranch(k) = "env/dev"
             /\ Len(LastActiveKeys(k)) = 1
             /\ Cardinality(ActiveMatching(k, 1)) = 2) =>
                /\ LastOwn(k).active.commitStatus.state = "to-many-matching-sha"
                /\ "env/dev" \notin last.flipped

\* ------------------------------------------------------------------------
\* C11 to C20
\* ------------------------------------------------------------------------

\* the PromotionStrategy object that the invocation in flight has read
PsRead == IF recon.phase = "idle" THEN ps ELSE recon.ps

\* the CommitStatus records that the step creates or updates
Written == commitStatuses' \ commitStatuses

\* the records of a store that do not carry label commit-status-copy=true
WithoutCopies(store) == {cs \in store : ~cs.copy}

\* C11: every record that a reconciliation creates or updates in
\* copyCommitStatuses carries label commit-status-copy=true and is the copy of
\* a record without the label, and the status it computes is the status
\* computed from the store with every labelled record taken away.
C11_CopiesLabelledAndIgnored ==
    [][last'.ran =>
          /\ \A c \in Written :
                 /\ c.copy
                 /\ \E o \in WithoutCopies(commitStatuses) :
                        c.name = CopyName(o.name) /\ c.namespace = o.namespace
          /\ last'.status = calculateStatus(WithoutCopies(commitStatuses), PsRead, last'.pcMap)]_vars

\* a reconciliation has read a store in which a labelled record has the key
\* and the SHA of one of the lists its rollups ask for
C11_Witness ==
    /\ last.ran
    /\ \E c \in commitStatuses, k \in LastPositions :
           /\ c.copy
           /\ c.name \in last.copiesRead
           /\ \/ \E n \in 1..Len(LastActiveKeys(k)) :
                     /\ c.key = LastActiveKeys(k)[n]
                     /\ c.sha = LastProposedCommit(k).status.active.hydrated.sha
              \/ \E n \in 1..Len(LastProposedKeys(k)) :
                     /\ c.key = LastProposedKeys(k)[n]
                     /\ c.sha = LastProposedCommit(k).status.proposed.hydrated.sha

\* C12: every record that a reconciliation creates or updates as a copy
\* belongs to an environment that has a previous environment whose active dry
\* SHA is the environment's proposed dry SHA; it is named
\* "proposed-<original name>", in the original's namespace, with the
\* environment's proposed hydrated SHA as spec.sha, "<previous branch> -
\* <original spec.name>" as spec.name and the original's state; and the
\* records without the copy label are left as they were.
C12_CopyForward ==
    [][last'.ran =>
          /\ \A c \in Written :
                 \E k \in 2..Len(last'.environments), o \in WithoutCopies(commitStatuses) :
                     LET previous == EntryOf(last'.status, last'.environments[k - 1].branch)
                         pc == last'.pcMap[last'.environments[k].branch]
                     IN  /\ previous.active.dry.sha = pc.status.proposed.dry.sha
                         /\ c.name = "proposed-" \o o.name
                         /\ c.namespace = o.namespace
                         /\ c.sha = pc.status.proposed.hydrated.sha
                         /\ c.specName = previous.branch \o " - " \o o.specName
                         /\ c.specState = o.specState
          /\ WithoutCopies(commitStatuses') = WithoutCopies(commitStatuses)]_vars

\* the reconciliation just completed has created a copy
C12_Witness ==
    /\ last.ran
    /\ \E c \in commitStatuses : c.copy /\ c.name \notin last.copiesRead

\* C13: after a reconciliation every environment of the spec has, in the
\* strategy's namespace, exactly one ProposedCommit named
\* KubeSafeUniqueName(strategy name + "-" + branch), owned by the strategy,
\* with the environment's branch as activeBranch and branch + "-next" as
\* proposedBranch.
C13_ProposedCommitPerEnvironment ==
    last.ran =>
        \A k \in LastPositions :
            LET named == {pc \in proposedCommits : pc.name = ProposedCommitName(LastBranch(k))}
            IN  /\ Cardinality(named) = 1
                /\ \A pc \in named :
                       /\ pc.namespace = PsNamespace
                       /\ pc.owner = PsName
                       /\ pc.activeBranch = LastBranch(k)
                       /\ pc.proposedBranch = LastBranch(k) \o "-next"

\* C14: two environments of a strategy with different branches have
\* ProposedCommits of different names, and the ProposedCommit a reconciliation
\* uses for an environment has that environment's branch as activeBranch.
C14_NamesDoNotCollide ==
    last.ran =>
        \A j \in LastPositions, k \in LastPositions :
            /\ LastBranch(j) # LastBranch(k) =>
                   ProposedCommitName(LastBranch(j)) # ProposedCommitName(LastBranch(k))
            /\ LastProposedCommit(k).activeBranch = LastBranch(k)

\* the four SHAs of a ProposedCommit are resolved
FourShas(pc) ==
    \A side \in {pc.status.active, pc.status.proposed} : side.dry.sha # "" /\ side.hydrated.sha # ""

\* C15: a step of a reconciliation that computes the status, writes a
\* CommitStatus, changes a PullRequest or persists the strategy status is a
\* step in which the reconciliation has read, for every environment of the
\* spec, a ProposedCommit with its four SHAs non-empty.
C15_NothingBeforeShas ==
    [][(\/ last'.ran
        \/ commitStatuses' # commitStatuses
        \/ ps'.status # ps.status
        \/ ~(pullRequests \subseteq pullRequests'))
          => /\ last'.ran
             /\ \A k \in 1..Len(last'.environments) :
                    /\ last'.environments[k].branch \in DOMAIN last'.pcMap
                    /\ FourShas(last'.pcMap[last'.environments[k].branch])]_vars

\* a reconciliation waits for the ProposedCommit of its second environment,
\* the first one resolved, and nothing has been written
C15_Witness ==
    /\ recon.phase = "wait"
    /\ recon.idx = 2
    /\ \E pc \in proposedCommits :
           pc.name = ProposedCommitName(recon.ps.environments[2].branch) /\ ~FourShas(pc)
    /\ ps.status = <<>>
    /\ WithoutCopies(commitStatuses) = commitStatuses
    /\ \A pr \in pullRequests : pr.specState = PullRequestOpen

\* C16: a reconciliation that completes without error returns a requeue
\* after the configured promotion-strategy requeue duration.
C16_RequeueAfterConfigured ==
    (last.ran /\ last.err = "") => last.requeueAfter = PromotionStrategyRequeueDuration

\* C17: after a reconciliation that completes without error the branches of
\* status.environments are the branches of spec.environments, in that order.
C17_StatusMirrorsSpec ==
    (last.ran /\ last.err = "") =>
        [k \in 1..Len(ps.status) |-> ps.status[k].branch]
            = [k \in 1..Len(last.environments) |-> last.environments[k].branch]

\* the store holds a record of that name
InStore(name) == \E pr \in pullRequests : pr.name = name

\* C18: an invocation of the PullRequest reconciler for a record that holds
\* the finalizer, has status.state open and is not under deletion, whose
\* FindOpen answers (the only call recorded with an invocation's calls when
\* it fails) that the provider has no open pull request, leaves no record
\* of that name in the store and makes no Create, Update, Merge or Close
\* call on the provider.
C18_GoneInOneReconciliation ==
    (/\ prLast.ran
     /\ prLast.before.finalizer
     /\ ~prLast.before.deleting
     /\ prLast.before.statusState = PullRequestOpen
     /\ "FindOpen" \notin prLast.calls
     /\ prLast.providerBefore # "open") =>
        /\ ~InStore(prLast.before.name)
        /\ prLast.calls = {}

\* C18, amended: such an invocation issues Delete and makes no call on the
\* provider; the record, holding the finalizer, stays in the store with its
\* deletion timestamp set; the invocation that then handles the deletion of
\* a record with status.state open calls Close, and the record leaves the
\* store exactly when Close succeeds.
C18_MarkedThenClosed ==
    /\ (/\ prLast.ran
         /\ prLast.before.finalizer
         /\ ~prLast.before.deleting
         /\ prLast.before.statusState = PullRequestOpen
         /\ "FindOpen" \notin prLast.calls
         /\ prLast.providerBefore # "open") =>
            /\ prLast.deleteIssued
            /\ prLast.calls = {}
            /\ \E pr \in pullRequests :
                   pr.name = prLast.before.name /\ pr.deleting /\ pr.finalizer
    /\ (/\ prLast.ran
         /\ prLast.before.finalizer
         /\ prLast.before.deleting
         /\ prLast.before.statusState = PullRequestOpen) =>
            /\ prLast.calls = {"Close"}
            /\ InStore(prLast.before.name) <=> ~prLast.closed

\* an invocation has found no open pull request on the provider for a record
\* with the finalizer and status.state open
C18_Witness ==
    /\ prLast.ran
    /\ prLast.before.finalizer
    /\ ~prLast.before.deleting
    /\ prLast.before.statusState = PullRequestOpen
    /\ prLast.providerBefore # "open"
    /\ prLast.deleteIssued

\* C19: an invocation for a record with desired state merged and observed
\* state open whose pull request is open on the provider, the provider
\* answering without error, calls Merge, persists status.state merged and
\* asks for a requeue; and after two invocations without error since the
\* record was set to merged the store holds the record no more.
C19_MergedThenGoneInTwo ==
    /\ (/\ prLast.ran
         /\ ~prLast.err
         /\ ~prLast.before.deleting
         /\ prLast.before.specState = PullRequestMerged
         /\ prLast.before.statusState = PullRequestOpen
         /\ prLast.providerBefore = "open") =>
            /\ "Merge" \in prLast.calls
            /\ prLast.requeue
            /\ \E pr \in pullRequests :
                   pr.name = prLast.before.name /\ pr.statusState = PullRequestMerged
    /\ (sinceFlip.flipped /\ ~sinceFlip.errors /\ sinceFlip.invocations >= 2) => pullRequests = {}

\* C19, amended: the first part as claimed; the store holds the record no more
\* after three invocations without error since the record was set to merged:
\* Merge, then Delete, then the removal of the finalizer.
C19_MergedThenGoneInThree ==
    /\ (/\ prLast.ran
         /\ ~prLast.err
         /\ ~prLast.before.deleting
         /\ prLast.before.specState = PullRequestMerged
         /\ prLast.before.statusState = PullRequestOpen
         /\ prLast.providerBefore = "open") =>
            /\ "Merge" \in prLast.calls
            /\ prLast.requeue
            /\ \E pr \in pullRequests :
                   pr.name = prLast.before.name /\ pr.statusState = PullRequestMerged
    /\ (sinceFlip.flipped /\ ~sinceFlip.errors /\ sinceFlip.invocations >= 3) => pullRequests = {}

\* the third invocation since the record was set to merged has removed the
\* finalizer of the merged record, and the record has left the store
C19_Witness ==
    /\ sinceFlip.flipped
    /\ ~sinceFlip.errors
    /\ sinceFlip.invocations = 3
    /\ prLast.ran
    /\ prLast.before.statusState = PullRequestMerged
    /\ prLast.before.deleting
    /\ prLast.calls = {}
    /\ pullRequests = {}

\* C20: a record that holds the finalizer leaves the store, or loses the
\* finalizer, only in an invocation that handles its deletion and in which
\* Close was called with success or status.state was merged and Close not
\* called; and when Close fails in such an invocation the record stays in
\* the store with its finalizer.
C20_FinalizerGuardsDeletion ==
    [][\A pr \in pullRequests :
          pr.finalizer =>
              /\ (\A after \in pullRequests' : after.name = pr.name => ~after.finalizer) =>
                     /\ prLast'.ran
                     /\ prLast'.before = pr
                     /\ pr.deleting
                     /\ ~InStore(pr.name)'
                     /\ \/ prLast'.closed
                        \/ pr.statusState = PullRequestMerged /\ "Close" \notin prLast'.calls
              /\ (/\ prLast'.ran
                  /\ prLast'.before = pr
                  /\ pr.deleting
                  /\ "Close" \in prLast'.calls
                  /\ ~prLast'.closed) =>
                     \E after \in pullRequests' : after.name = pr.name /\ after.finalizer]_vars

\* an invocation has called Close with success for a record under deletion
\* that held the finalizer, and the record has left the store
C20_Witness ==
    /\ prLast.ran
    /\ prLast.before.finalizer
    /\ prLast.before.deleting
    /\ prLast.closed
    /\ ~InStore(prLast.before.name)

\* ------------------------------------------------------------------------
\* C21 to C30
\* ------------------------------------------------------------------------

\* the characters a label may hold
LabelCharacters ==
    {LowerLetters[n] : n \in 1..Len(LowerLetters)} \cup {UpperLetters[n] : n \in 1..Len(UpperLetters)}
        \cup {DecimalDigits[n] : n \in 1..Len(DecimalDigits)} \cup {".", "_", "-"}

\* C21: the result of KubeSafeLabel has at most 63 characters, does not start
\* with a hyphen, holds only characters of [A-Za-z0-9._-], and is empty for
\* the empty string.
C21_LabelSafe ==
    (call.op = "KubeSafeLabel" /\ call.out # <<>>) =>
        LET label == call.out[1]
        IN  /\ Len(label) <= 63
            /\ label # <<>> => label[1] # "-"
            /\ \A n \in 1..Len(label) : label[n] \in LabelCharacters
            /\ call.arg = <<>> => label = <<>>

\* KubeSafeLabel has returned for a name of more than 63 characters whose
\* last 63 begin with a character that m1 replaces
C21_Witness ==
    /\ call.op = "KubeSafeLabel"
    /\ call.out # <<>>
    /\ Len(call.arg) > 63
    /\ ~IsAlphaNumeric(call.arg[Len(call.arg) - 62])
    /\ Len(call.out[1]) = 62

\* C22: UpsertEnvironmentStatus puts the entry in the place of the first
\* entry of the same branch and leaves the others, or appends it when no
\* entry has the branch; a second upsert of the same entry changes nothing.
C22_UpsertReplacesOrAppends ==
    (call.op = "UpsertEnvironmentStatus" /\ call.out # <<>>) =>
        LET slice == call.arg[1]
            i == call.arg[2]
            result == call.out[1]
            same == {n \in 1..Len(slice) : slice[n].branch = i.branch}
        IN  /\ IF same = {}
               THEN result = slice \o <<i>>
               ELSE /\ Len(result) = Len(slice)
                    /\ \A n \in 1..Len(slice) :
                           result[n] = IF \A m \in same : n <= m THEN (IF n \in same THEN i ELSE slice[n])
                                       ELSE slice[n]
            /\ UpsertEnvironmentStatus(result, i) = result

\* an upsert has put an entry in the second place of a list of two, in the
\* place of a different entry of the same branch
C22_Witness ==
    /\ call.op = "UpsertEnvironmentStatus"
    /\ call.out # <<>>
    /\ Len(call.arg[1]) = 2
    /\ call.arg[1][1].branch # call.arg[2].branch
    /\ call.arg[1][2].branch = call.arg[2].branch
    /\ call.arg[1][2] # call.arg[2]
    /\ call.out[1][2] = call.arg[2]

\* C23: the result of KubeSafeUniqueName ends with a hyphen followed by the
\* hexadecimal FNV-1a hash of the sanitised name, whatever the length of the
\* name.
C23_HashSuffixKept ==
    (call.op = "KubeSafeUniqueName" /\ call.out # <<>>) =>
        LET name == call.out[1]
            sanitised == ToLower(ReplaceAllString(call.arg))
            suffix == <<"-">> \o Sum32Hex(Fnv32a(<<33052, 40389>>, sanitised, 1, Len(sanitised)))
        IN  /\ Len(name) >= Len(suffix)
            /\ SubSeq(name, Len(name) - Len(suffix) + 1, Len(name)) = suffix

\* C24: an invocation sets the open PR of a non-first environment with
\* autoMerge to merged exactly when the previous environment's active rollup
\* is success with the proposed dry SHA and a later commit time than the
\* environment's own active commit, and the environment's proposed rollup is
\* success.
C24_MergedIffBothGates ==
    [][last'.ran =>
          \A k \in 2..Len(last'.environments) :
              (last'.environments[k].autoMerge /\ OpenPullRequest(last'.environments[k].branch)) =>
                  ((LastBranch(k) \in last.flipped)'
                       <=> (PreviousGateGreen(k) /\ LastOwn(k).proposed.commitStatus.state = "success")')]_vars

\* an invocation has set the PR of a non-first environment to merged with
\* both gates passed
C24_Witness ==
    /\ last.ran
    /\ \E k \in LastPositions \ {1} :
           /\ LastBranch(k) \in last.flipped
           /\ last.environments[k].autoMerge
           /\ PreviousGateGreen(k)
           /\ LastOwn(k).proposed.commitStatus.state = "success"

\* the entry that the loop body of calculateStatus makes for position k when
\* it starts from an empty status list
LastRollup(k) ==
    CalculateEnvironment(commitStatuses,
                         [environments |-> last.environments,
                          activeCommitStatuses |-> last.activeCommitStatuses,
                          proposedCommitStatuses |-> last.proposedCommitStatuses],
                         <<>>, last.environments[k], LastProposedCommit(k))[1]

\* C25: after calculateStatus the entry of every environment's branch holds
\* the rollups computed for that environment, whatever the status list held
\* before the invocation.
C25_RollupsInOwnEntry ==
    last.ran => \A k \in LastPositions : LastOwn(k) = LastRollup(k)

\* C26: the write of merged in the retry loop leaves alone a PullRequest
\* whose desired or observed state is not open any more when it is written.
C26_WriteOnlyWhileOpen ==
    [][(recon.phase = "flip" /\ recon'.phase = "idle") =>
          \A pr \in pullRequests :
              (pr.name = recon.name
                  /\ (pr.specState # PullRequestOpen \/ pr.statusState # PullRequestOpen))
                  => pr \in pullRequests']_vars

\* the record collected for the n-th effective active key of position k
LastCollected(k, n) == CHOOSE cs \in ActiveMatching(k, n) : TRUE

\* C27: when every effective active key of an environment has exactly one
\* non-copy match, the active rollup state is success if every collected
\* record has status.state success, and otherwise state and sha are the
\* spec.state and spec.sha of the first collected record, in key order, whose
\* status.state is not success.
C27_ActiveRollupFromFirstFailing ==
    last.ran =>
        \A k \in LastPositions :
            (/\ Len(LastActiveKeys(k)) >= 1
             /\ \A n \in 1..Len(LastActiveKeys(k)) : Cardinality(ActiveMatching(k, n)) = 1) =>
                LET failing == {n \in 1..Len(LastActiveKeys(k)) : LastCollected(k, n).statusState # "success"}
                IN  IF failing = {}
                    THEN LastOwn(k).active.commitStatus.state = "success"
                    ELSE LET first == CHOOSE n \in failing : \A m \in failing : n <= m
                         IN  LastOwn(k).active.commitStatus =
                                 [state |-> LastCollected(k, first).specState,
                                  sha |-> LastCollected(k, first).sha]

\* C29: after an invocation without error, for every non-first environment
\* whose proposed dry SHA is the active dry SHA of the environment before it,
\* every non-copy record of one of its effective active keys on the active
\* hydrated SHA of the environment before it has a copy named
\* "proposed-<original name>" with the environment's proposed hydrated SHA.
C29_EveryMatchCopied ==
    (last.ran /\ last.err = "") =>
        \A k \in LastPositions \ {1} :
            LastPrevious(k).active.dry.sha = LastProposedCommit(k).status.proposed.dry.sha =>
                \A n \in 1..Len(LastActiveKeys(k)) :
                    \A o \in Matching(LastActiveKeys(k)[n], LastPrevious(k).active.hydrated.sha) :
                        \E c \in commitStatuses :
                            /\ c.name = CopyName(o.name)
                            /\ c.namespace = o.namespace
                            /\ c.sha = LastProposedCommit(k).status.proposed.hydrated.sha

\* C28: the active rollup state of an environment is success only if every
\* record collected for it has spec.state success and status.state success.
C28_SuccessOnlyFromAgreedSuccess ==
    last.ran =>
        \A k \in LastPositions :
            LastOwn(k).active.commitStatus.state = "success" =>
                \A n \in 1..Len(LastActiveKeys(k)) :
                    Cardinality(ActiveMatching(k, n)) = 1 =>
                        /\ LastCollected(k, n).specState = CommitSuccess
                        /\ LastCollected(k, n).statusState = CommitSuccess

\* C30: an invocation of the PullRequest reconciler that starts while the
\* provider holds an open pull request of the record does not call the
\* provider's Create.
C30_NoSecondCreate ==
    (prLast.ran /\ prLast.providerBefore = "open") => "Create" \notin prLast.calls

\* ------------------------------------------------------------------------
\* C31 to C40
\* ------------------------------------------------------------------------

\* the step is an invocation of the PullRequest reconciler whose Merge has
\* merged the pull request of the branch on the provider
MergeStep(branch) ==
    /\ provider[branch] = "open"
    /\ provider'[branch] = "merged"
    /\ "Merge" \in prLast'.calls

\* C31: when provider Merge merges the pull request of an environment that
\* the last PromotionStrategy reconciliation has set to merged, the dry SHA at
\* the head of the proposed branch is the proposed dry SHA that this
\* reconciliation has evaluated the gates on.
C31_MergedShaIsGatedSha ==
    [][\A branch \in Branches :
           (MergeStep(branch) /\ last.ran /\ branch \in last.flipped) =>
               DrySha(git[branch].proposed) = last.pcMap[branch].status.proposed.dry.sha]_vars

\* the step completes an invocation of PromotionStrategyReconciler.Reconcile
Completes == last'.ran /\ (last' # last \/ recon' # recon)

\* the PullRequests and the CommitStatus copies that the body of the second
\* loop writes for the environment at position k of the completed invocation
PullRequestsOf(prs, k) ==
    {pr \in prs : pr.environment = last'.environments[k].branch}

CopiesOf(store, k) ==
    {c \in store : c.copy /\ c.sha = last'.pcMap[last'.environments[k].branch].status.proposed.hydrated.sha}

C33_CancelledWaitEnds ==
    [][(recon.phase = "wait" /\ recon.cancelled /\ recon' # recon) => recon'.phase # "wait"]_vars

\* C34: an invocation of the PullRequest reconciler in which a call of the
\* provider fails returns the error, the record stays in the store without a
\* deletion being issued, and its persisted status is what it was before
\* the invocation.
C34_ProviderErrorKeepsStatus ==
    [][(prLast'.ran /\ prLast'.calls # {} /\ prLast'.failed) =>
           /\ prLast'.err
           /\ ~prLast'.deleteIssued
           /\ \E pr \in pullRequests' :
                  /\ pr.name = prLast'.before.name
                  /\ pr.statusState = prLast'.before.statusState
                  /\ pr.observedGeneration = prLast'.before.observedGeneration
                  /\ pr.deleting = prLast'.before.deleting]_vars

\* the provider has failed to merge a pull request that was set to merged
C34_Witness ==
    /\ prLast.ran
    /\ prLast.err
    /\ "Merge" \in prLast.calls
    /\ prLast.before.specState = PullRequestMerged

\* what C36 says of an invocation: Create is called and neither Merge nor
\* Close, and when the invocation returns without error the record in the
\* store has status.state open, the id of the provider, a creation time and
\* observedGeneration equal to its generation
CreatedAndPersisted ==
    /\ "Create" \in prLast.calls
    /\ "Merge" \notin prLast.calls
    /\ "Close" \notin prLast.calls
    /\ ~prLast.err =>
           \E pr \in pullRequests :
               /\ pr.name = prLast.before.name
               /\ pr.statusState = PullRequestOpen
               /\ pr.id = ProviderId(pr.environment)
               /\ pr.prCreationTime # ""
               /\ pr.observedGeneration = pr.generation

\* C36: an invocation for a record with desired state open and an observed
\* state that is not open calls the provider's Create and neither Merge nor
\* Close, and when it returns without error the persisted status has state
\* open, the provider's id, a creation time and the record's generation as
\* observedGeneration.
C36_CreateOnOpen ==
    (/\ prLast.ran
     /\ prLast.before.specState = PullRequestOpen
     /\ prLast.before.statusState # PullRequestOpen) => CreatedAndPersisted

\* C36, amended: the same for a record that is not under deletion, when
\* FindOpen answers without error and either finds the open pull request or
\* the record never had an observed state.
C36_CreateOnOpenNotDeleting ==
    (/\ prLast.ran
     /\ prLast.before.specState = PullRequestOpen
     /\ prLast.before.statusState # PullRequestOpen
     /\ ~prLast.before.deleting
     /\ "FindOpen" \notin prLast.calls
     /\ (prLast.providerBefore = "open" \/ prLast.before.statusState = "")) => CreatedAndPersisted

\* a new record has been opened on the provider and its status written
C36_Witness ==
    /\ prLast.ran
    /\ prLast.before.specState = PullRequestOpen
    /\ prLast.before.statusState = ""
    /\ ~prLast.before.deleting
    /\ "Create" \in prLast.calls
    /\ ~prLast.err

\* C35: a write of the reconciler that meets a conflict is repeated after a
\* new read: no invocation of the PromotionStrategy reconciler returns the
\* conflict of its status update as its error.
C35_ConflictRetried ==
    last.ran => last.err # "conflict"

\* the effective active keys of the environment before position k
LastPreviousKeys(k) == last.environments[k - 1].activeCommitStatuses \o last.activeCommitStatuses

\* the non-copy records that a list of keys selects on a SHA
Selected(keys, sha) == UNION {Matching(keys[n], sha) : n \in 1..Len(keys)}

\* C37: after an invocation without error, for an environment whose copy
\* condition holds, every non-copy record that the previous environment's
\* effective active keys select on previous.active.hydrated.sha has its copy
\* on the environment's proposed hydrated SHA; stated where the previous and
\* the own keys select one record at most, so that a single Create suffices.
C37_CopiesByPreviousKeys ==
    (last.ran /\ last.err = "") =>
        \A k \in LastPositions \ {1} :
            (/\ LastPrevious(k).active.dry.sha = LastProposedCommit(k).status.proposed.dry.sha
             /\ Cardinality(Selected(LastPreviousKeys(k) \o LastActiveKeys(k),
                                     LastPrevious(k).active.hydrated.sha)) <= 1) =>
                \A o \in Selected(LastPreviousKeys(k), LastPrevious(k).active.hydrated.sha) :
                    \E c \in commitStatuses :
                        /\ c.copy
                        /\ c.name = CopyName(o.name)
                        /\ c.namespace = o.namespace
                        /\ c.sha = LastProposedCommit(k).status.proposed.hydrated.sha

\* the records that copyCommitStatuses is given for the environment at
\* position k of the strategy in the store: the non-copy records of the keys
\* it is called with on the previous environment's active hydrated SHA
ToCopy(k) ==
    Selected(ps.environments[k].activeCommitStatuses \o ps.activeCommitStatuses,
             HydratedSha(ps.environments[k - 1].branch, git[ps.environments[k - 1].branch].active))

\* each of these records has its copy with the proposed hydrated SHA
AllCopied ==
    \A k \in 2..Len(ps.environments) :
        \A o \in ToCopy(k) :
            \E c \in commitStatuses :
                /\ c.copy
                /\ c.name = CopyName(o.name)
                /\ c.namespace = o.namespace
                /\ c.sha = HydratedSha(ps.environments[k].branch, git[ps.environments[k].branch].proposed)
                /\ c.specState = o.specState

\* C39: on a strategy that is not edited, with the SHAs and the records of
\* the checks unchanged and the copy condition holding, the repeated
\* reconciliations come to a state in which every record to copy has its
\* copy "proposed-<name>" with the proposed hydrated SHA and stay there, and
\* from such a state on no step changes the set of copies or a copy.
C39_CopiesConverge ==
    /\ <>[]AllCopied
    /\ [][AllCopied => commitStatuses' = commitStatuses]_vars

\* the copies of MaxCS + 1 records are there
C39_Witness ==
    /\ AllCopied
    /\ \E k \in 2..Len(ps.environments) : Cardinality(ToCopy(k)) = MaxCS + 1

\* the PR of a branch is in the store with desired state merged
MergedDesired(branch) ==
    \E pr \in pullRequests : pr.environment = branch /\ pr.specState = PullRequestMerged

\* the invocation just completed has called the provider's Merge for the branch
MergeInvoked(branch) ==
    /\ prLast.ran
    /\ prLast.before.environment = branch
    /\ "Merge" \in prLast.calls

\* no PR of the branch is in the store
Removed(branch) ==
    \A pr \in pullRequests : pr.environment # branch

\* C38: while the merge condition of an environment holds, once its PR is in
\* the store with desired and observed state open, the desired state becomes
\* merged, the provider's Merge is called and the record leaves the store.
C38_PromotionCompletes ==
    \A branch \in Branches :
        /\ OpenPullRequest(branch) ~> MergedDesired(branch)
        /\ OpenPullRequest(branch) ~> MergeInvoked(branch)
        /\ OpenPullRequest(branch) ~> Removed(branch)

\* the record has left the store after a PullRequest was set to merged and
\* merged on the provider
C38_Witness ==
    /\ sinceFlip.flipped
    /\ \E branch \in Branches : Removed(branch) /\ provider[branch] = "merged"

====
